---- MODULE Spec2Model ----
(***************************************************************************)
(* Benchmark execution engine of performance_benchmark.py:                 *)
(* _pg_benchmark / _neo_benchmark drive a statement catalog through the    *)
(* concurrency levels, with warm-up bursts and resource-sampled steady     *)
(* repetitions, and append one CSV row per warm-up burst or repetition.    *)
(***************************************************************************)
EXTENDS Integers, Sequences, FiniteSets, TLC

(***************************************************************************)
(* Bounds of the model                                                     *)
(***************************************************************************)
\* how many entries of CONCURRENCY_LEVELS = [1, 3, 5, 10] the run iterates
NumLevels == 2
\* how many statements of the catalog the run iterates
NumQueries == 2
\* largest --warmups / --repetitions value explored
MaxWarmups == 2
MaxReps == 2
\* environment: wall-clock time (TaskMs milliseconds and TaskUs microseconds)
\* and container CPU microseconds that one statement execution costs, and the
\* container's resident memory when the run starts
TaskMs == 1
TaskUs == 4
CpuPerTask == 1000
MemNowMiB == 8
\* rows of the data a read statement returns, and MiB that the container's
\* writable layer and each of its volumes occupy
DatasetRows == 3
\* microseconds after the start of the run at which the lower end of the
\* 30-day window passes the date of an order in the data
WindowEndUs == 1000
DiskMiB == 2
\* sampler study: how far the CPU counter advances and how many MiB the
\* memory gauge moves between two snapshots
CpuSteps == 3
MemSteps == 2

(***************************************************************************)
(* Program constants                                                       *)
(***************************************************************************)
CONCURRENCY_LEVELS == SubSeq(<<1, 3, 5, 10>>, 1, NumLevels)

\* WARMUP_SLEEP = 0.05 s, in milliseconds
WARMUP_SLEEP_MS == 50

\* the column names written as the first line of the output file
CSV_HEADER == << "db", "mode", "phase", "concurrency", "query_no", "repeat",
                 "complexity", "duration_ms", "qps", "avg_cpu", "avg_mem",
                 "disk_mb", "statement", "result" >>

\* multiprocessing.cpu_count() of the benchmarking host
CPU_CORES == 2

\* the CPUs the measured container can use (docker run --cpus, or the CPUs of
\* the virtual machine Docker Desktop runs it in): one fewer than the host's.
\* The benchmark never reads this number.
ContainerCpus == CPU_CORES - 1

\* the tiers of a catalog in dict order, with the number of statements each
Tiers == << <<"simple", 3>>, <<"medium", 3>>, <<"complex", 3>>,
            <<"very_complex", 3>>, <<"create", 4>>, <<"update", 4>>,
            <<"delete", 4>> >>

RECURSIVE Flatten(_)
Flatten(ts) ==
    IF ts = <<>> THEN <<>>
    ELSE [k \in 1..ts[1][2] |-> [comp |-> ts[1][1], query |-> k]]
         \o Flatten(Tail(ts))

\* a catalog holding the first n statements
Catalog(n) == SubSeq(Flatten(Tiers), 1, n)

IsRead(comp) == comp \in {"simple", "medium", "complex", "very_complex"}

(***************************************************************************)
(* Values                                                                  *)
(***************************************************************************)
\* a float that is a number, and math.nan
Num(x) == [nan |-> FALSE, v |-> x]
NaN == [nan |-> TRUE, v |-> 0]

\* f"{x:.2f}" of x = n / dd (dd > 0): the number of hundredths printed,
\* rounded half to even
Fmt2(n, dd) ==
    LET q == n \div dd
        r == n % dd
    IN  IF 2 * r < dd THEN q
        ELSE IF 2 * r > dd THEN q + 1
        ELSE IF q % 2 = 0 THEN q ELSE q + 1

\* one statement execution, in microseconds
TaskTime == TaskMs * 1000 + TaskUs

RECURSIVE SeqMax(_)
SeqMax(s) == IF Len(s) = 1 THEN s[1]
             ELSE LET m == SeqMax(Tail(s)) IN IF s[1] > m THEN s[1] ELSE m

VARIABLES
    db,            \* "postgres" (_pg_benchmark) or "neo4j" (_neo_benchmark)
    mode,          \* "normal" or "optimized", the variant's second half
    WARMUP_RUNS,   \* args.warmups
    REPETITIONS,   \* args.repetitions
    queries,       \* the catalog handed to the benchmark, flattened
    pc,            \* position of the orchestrator's sequential loop
    ci,            \* index of conc in CONCURRENCY_LEVELS
    idx,           \* enumerate(pbar, 1)
    wrep,          \* warm-up loop variable
    rep,           \* steady loop variable
    futs,          \* the list futs of the last batch, by submit order
    max_workers,   \* size of the current ThreadPoolExecutor, 0 when none
    exc,           \* exception pending inside the with-block of the executor
    checkedOut,    \* connections handed out by PG_POOL
    poolErrors,    \* getconn calls that raised PoolError
    now,           \* time.perf_counter_ns, in microseconds
    t0,            \* start of the running timer
    cpu_usec,      \* usage_usec of the container's cpu.stat
    mem_now,       \* memory.current of the container, in bytes
    start_stats,   \* snapshot before the steady batch
    end_stats,     \* snapshot after the steady batch
    first_result,  \* futs[0].result()
    duration_ms,   \* measured duration of the batch or warm-up call, in
                   \* thousandths of a millisecond
    d,             \* d = _delta(start_stats, end_stats)
    log,           \* rows written to the CSV after the header
    error,         \* exception that left the benchmark function
    failedAt,      \* position at which that exception was raised
    started,       \* history: every executor created, in order
    snaps,         \* history: every _read_cgroup_stats call, in order
    header,        \* the header rows written to the CSV
    pauses,        \* history: every time.sleep(WARMUP_SLEEP), in order
    dataset,       \* number of rows of the data the statements work on
    docker,        \* what docker inspect answers about the container's disk
    cgroup_visible,\* whether CG_PATH / cid exists on the host
    use_exec,      \* use_exec of the running _read_cgroup_stats call
    reads,         \* history: every file read of _read_cgroup_stats
    mpc,           \* main.py: position of main / run_once, "idle" when the
                   \* benchmark was not started by main.py
    rnd,           \* main.py: loop variable of main
    ui,            \* main.py: position of n_users in USER_STEPS
    step,          \* main.py: the next step of the try-block or of the
                   \* finally-block of run_once
    raised,        \* main.py: the step whose exception is leaving run_once
    invoked,       \* main.py history: the operations the running run_once
                   \* has invoked, in order
    last_caught,   \* main.py history: position in invoked of the last
                   \* operation that failed and caught its own exception
    runs,          \* main.py history: the run_once calls, in order
    analyses,      \* main.py history: how often analyse.py was started
    attempt,       \* apply_*_cypher_structure: loop variable
    statements,    \* apply_*_cypher_structure: number of statements of the
                   \* script
    ran,           \* apply_*_cypher_structure history: the statements the
                   \* running attempt has run, and whether each succeeded
    applied,       \* apply_*_cypher_structure history: how many statement
                   \* executions have succeeded in all
    CID_CACHE,     \* _CID_CACHE: pairs of a container name and its id
    cid,           \* what the last _cid_of call gave its caller
    lookups,       \* history: number of _cid_of calls
    inspects       \* history: every docker inspect of _cid_of, in order

vars == << db, mode, WARMUP_RUNS, REPETITIONS, queries, pc, ci, idx, wrep, rep,
           futs, max_workers, exc, checkedOut, poolErrors, now, t0, cpu_usec,
           mem_now, start_stats, end_stats, first_result, duration_ms, d, log,
           error, failedAt, started, snaps, header, pauses, dataset, docker,
           cgroup_visible, use_exec, reads, mpc, rnd, ui, step, raised,
           invoked, last_caught, runs, analyses, attempt, statements, ran,
           applied, CID_CACHE, cid, lookups, inspects >>

config == << db, mode, WARMUP_RUNS, REPETITIONS, queries >>
diskv == << docker >>
samplerv == << cgroup_visible, use_exec, reads >>
mainv == << mpc, rnd, ui, step, raised, invoked, last_caught, runs, analyses >>
schemav == << attempt, statements, ran, applied >>
cidv == << CID_CACHE, cid, lookups, inspects >>
drv == << mainv, schemav, cidv >>
extv == << header, pauses, dataset, diskv, samplerv, drv, drv >>
loopv == << ci, idx, wrep, rep >>
poolv == << checkedOut, poolErrors >>
envv == << now, cpu_usec, mem_now >>
measv == << t0, start_stats, end_stats, first_result, duration_ms, d >>
hist == << started, snaps >>
failv == << error, failedAt >>

\* q_iter = [(c, q) for c, lst in queries.items() for q in lst]
q_iter == queries

conc == CONCURRENCY_LEVELS[ci]
comp == q_iter[idx].comp

\* maxconn=max(CONCURRENCY_LEVELS)
PoolCapacityFirstLevel == CONCURRENCY_LEVELS[1]
PoolCapacity == SeqMax(CONCURRENCY_LEVELS)

InFlight == Cardinality({i \in 1..Len(futs) : futs[i].state \in {"pending", "running"}})
Running == Cardinality({i \in 1..Len(futs) : futs[i].state = "running"})
AllDone == \A i \in 1..Len(futs) : futs[i].state \in {"ok", "err"}

\* <<level position, statement number, phase, repetition>> of the current batch
PhaseNo(phase) == IF phase = "warmup" THEN 1 ELSE 2
CurKey(phase) == << ci, idx, PhaseNo(phase), IF phase = "warmup" THEN wrep ELSE rep >>

NoStats == [cpu_usec |-> NaN, mem_now |-> NaN]

\* no schema script is being applied
SchemaIdle ==
    /\ attempt = 0
    /\ statements = 0
    /\ ran = <<>>
    /\ applied = 0

\* _CID_CACHE: dict[str, str] = {} at import, and nothing looked up yet
CidIdle ==
    /\ CID_CACHE = {}
    /\ cid = [ok |-> FALSE, id |-> 0]
    /\ lookups = 0
    /\ inspects = <<>>

\* performance_benchmark.py started by hand: no main.py drives it
MainIdle ==
    /\ mpc = "idle"
    /\ rnd = 1 /\ ui = 1 /\ step = 1
    /\ raised = "none"
    /\ invoked = <<>>
    /\ last_caught = 0
    /\ runs = <<>>
    /\ analyses = 0

\* the variables of _pg_benchmark / _neo_benchmark when it is entered
Entry ==
    /\ ci = 1 /\ idx = 1 /\ wrep = 1 /\ rep = 1
    /\ futs = <<>>
    /\ max_workers = 0
    /\ exc = "none"
    /\ checkedOut = 0
    /\ poolErrors = 0
    /\ now = 0
    /\ t0 = 0
    /\ start_stats = NoStats
    /\ end_stats = NoStats
    /\ first_result = [note |-> "none"]
    /\ duration_ms = 0
    /\ d = NoStats
    /\ log = <<>>
    /\ error = "none"
    /\ failedAt = "none"
    /\ started = <<>>
    /\ snaps = <<>>
    /\ header = <<>>
    /\ pauses = <<>>
    /\ use_exec = FALSE
    /\ reads = <<>>

\* the state after argument parsing, whatever the configuration
Start == Entry /\ MainIdle /\ SchemaIdle /\ CidIdle

\* a container at rest: its counters, its data and what docker reports of it
\* (a writable layer and one volume, both readable)
HealthyDocker ==
    [root   |-> [ok |-> TRUE, bytes |-> DiskMiB * 1024 * 1024],
     mounts |-> [ok |-> TRUE,
                 list |-> << [type |-> "volume", ok |-> TRUE,
                              bytes |-> DiskMiB * 1024 * 1024] >>]]

\* what the docker calls of get_docker_disk_mb can answer. The size query of
\* the container fails, or prints nothing ("" or "0") or a size; the mounts
\* query fails or lists up to two mounts: a bind mount, or a volume whose
\* size query fails or prints -1 (not available), 0 or a size.
RootOutcomes ==
    { [ok |-> FALSE, bytes |-> 0], [ok |-> TRUE, bytes |-> 0],
      [ok |-> TRUE, bytes |-> DiskMiB * 1024 * 1024] }

MountOutcomes ==
    { [type |-> "bind", ok |-> TRUE, bytes |-> 0],
      [type |-> "volume", ok |-> FALSE, bytes |-> 0] }
    \cup { [type |-> "volume", ok |-> TRUE, bytes |-> b] :
             b \in {-1, 0, DiskMiB * 1024 * 1024} }

MountLists ==
    { <<>> } \cup { << a >> : a \in MountOutcomes }
             \cup { << a, b >> : a, b \in MountOutcomes }

DockerOutcomes ==
    { [root |-> r, mounts |-> m] :
        r \in RootOutcomes,
        m \in { [ok |-> FALSE, list |-> <<>>] }
              \cup { [ok |-> TRUE, list |-> l] : l \in MountLists } }

Container ==
    /\ cpu_usec = 0
    /\ mem_now = MemNowMiB * 1024 * 1024
    /\ dataset = [rows |-> DatasetRows, version |-> 0]
    /\ docker = HealthyDocker
    /\ cgroup_visible = TRUE

\* --variant: pg_normal | pg_opt | neo_normal | neo_opt
Variants == { << "postgres", "normal" >>, << "postgres", "optimized" >>,
              << "neo4j", "normal" >>, << "neo4j", "optimized" >> }

Init ==
    /\ \E v \in { << "postgres", "normal" >>, << "neo4j", "optimized" >> } :
         db = v[1] /\ mode = v[2]
    /\ WARMUP_RUNS \in 0..MaxWarmups
    /\ REPETITIONS \in 0..MaxReps
    /\ queries = Catalog(NumQueries)
    /\ pc = "start"
    /\ Container
    /\ Start

(***************************************************************************)
(* Helpers of the benchmark                                                *)
(***************************************************************************)
Sub(a, b) == IF a.nan \/ b.nan THEN NaN ELSE Num(a.v - b.v)

\* _read_cgroup_stats on success: the container's counters at this moment
ReadCgroupStats == [cpu_usec |-> Num(cpu_usec),
                    mem_now  |-> Num(mem_now)]

\* the two snapshots are subtracted the wrong way round
DeltaSwapped(before, after) == [cpu_usec |-> Sub(before.cpu_usec, after.cpu_usec),
                                mem_now  |-> Sub(before.mem_now, after.mem_now)]

\* _delta: {k: after[k] - before[k] for k in before}
Delta(before, after) == [cpu_usec |-> Sub(after.cpu_usec, before.cpu_usec),
                         mem_now  |-> Sub(after.mem_now, before.mem_now)]

\* _volume_usage sums: the bytes of the volume mounts, an unreadable one as 0
RECURSIVE VolBytes(_)
VolBytes(list) ==
    IF list = <<>> THEN 0
    ELSE (IF list[1].type = "volume" /\ list[1].ok THEN list[1].bytes ELSE 0)
         + VolBytes(Tail(list))

\* an empty container is reported with its size, 0.00
GetDockerDiskMbZero(dk) ==
    LET root_bytes == IF dk.root.ok THEN dk.root.bytes ELSE 0
        vol_bytes  == IF dk.mounts.ok THEN VolBytes(dk.mounts.list) ELSE 0
        total      == root_bytes + vol_bytes
    IN  IF total >= 0 THEN Num(total) ELSE NaN

\* get_docker_disk_mb: SizeRootFs plus the volumes, in bytes (1 MB = 1024**2
\* of them), math.nan unless the total is positive; every failed docker call
\* is caught
GetDockerDiskMb(dk) ==
    LET root_bytes == IF dk.root.ok THEN dk.root.bytes ELSE 0
        vol_bytes  == IF dk.mounts.ok THEN VolBytes(dk.mounts.list) ELSE 0
        total      == root_bytes + vol_bytes
    IN  IF total > 0 THEN Num(total) ELSE NaN

\* f"{disk_mb:.2f}" of a size in bytes
DiskField(x) == IF x.nan THEN NaN ELSE Num(Fmt2(x.v * 25, 256 * 1024))

\* The numeric columns of a row hold what _log_csv prints, f"{x:.2f}", as a
\* number of hundredths; dur is a duration in thousandths of a millisecond.
\* f"{dur:.2f}"
DurField(dur) == Num(Fmt2(dur, 10))

\* the rate of a single request stream
QpsPerStream(c, dur) == Num(Fmt2(100000000, dur))

\* qps = conc * 1000 / duration_ms, printed as f"{qps:.2f}"
Qps(c, dur) == Num(Fmt2(c * 100000000, dur))

\* the load is cut off at 100 percent
AvgCpuCapped(dl, dur) ==
    IF dl.cpu_usec.nan THEN NaN
    ELSE LET pct == Fmt2(dl.cpu_usec.v * 10000, dur * CPU_CORES)
         IN  Num(IF pct > 10000 THEN 10000 ELSE pct)

\* cpu_sec = d["cpu_usec"] / 1_000_000
\* avg_cpu = (cpu_sec / (duration_ms / 1000 * CPU_CORES)) * 100, f"{avg_cpu:.2f}"
AvgCpu(dl, dur) ==
    IF dl.cpu_usec.nan THEN NaN
    ELSE Num(Fmt2(dl.cpu_usec.v * 10000, dur * CPU_CORES))

\* avg_mem = (start["mem_now"] + end["mem_now"]) / 2 / 1024**2, f"{avg_mem:.2f}"
AvgMem(s0, s1) ==
    IF s0.mem_now.nan \/ s1.mem_now.nan THEN NaN
    ELSE Num(Fmt2((s0.mem_now.v + s1.mem_now.v) * 25, 512 * 1024))

\* The data the executions of one batch return can differ (rows written by
\* the other executions, generated keys): the data of the first-submitted
\* execution is told apart from the data of the others.
DataOf(i) == IF i = 1 THEN 1 ELSE 2

\* cur.description: whether the statement of a tier returns columns. Every
\* read is a SELECT, and every create, update and delete statement of the
\* PostgreSQL catalogs ends in RETURNING.
HasDescription(c) ==
    c \in {"simple", "medium", "complex", "very_complex", "create", "update", "delete"}

\* every statement, a read too, leaves a row behind
EffectCountsReads(c, ds) == [rows |-> ds.rows + 1, version |-> ds.version + 1]

\* what an executed statement does to the data: autocommit is on, and a
\* Cypher statement run in a session commits when the session closes
Effect(c, ds) ==
    CASE c = "create" -> [rows |-> ds.rows + 1, version |-> ds.version + 1]
      [] c = "update" -> [rows |-> ds.rows, version |-> ds.version + 1]
      [] c = "delete" -> [rows |-> IF ds.rows > 0 THEN ds.rows - 1 ELSE 0,
                          version |-> ds.version + 1]
      [] OTHER -> ds

\* the third "complex" statement counts the orders of the last 30 days per
\* user: WHERE o.created_at >= CURRENT_DATE - INTERVAL '30 days', in Cypher
\* datetime(o.created_at) >= datetime() - duration({days:30})
Windowed(stmt) == stmt.comp = "complex" /\ stmt.query = 3

\* the rows a statement returns: a read those of the data, a write the
\* RETURNING / RETURN row of what it touched. One row of the data is in the
\* 30-day window only until the clock reaches WindowEndUs.
RowsReturned(c) ==
    IF ~IsRead(c) THEN 1
    ELSE IF Windowed(q_iter[idx]) /\ now >= WindowEndUs /\ dataset.rows > 0
         THEN dataset.rows - 1
         ELSE dataset.rows

\* _serialize_pg / the return value of _run_neo_query, v the data returned
\* (the first row of a read also depends on the data as they are then):
\* _run_neo_query counts the records and keeps the first, whatever the
\* statement; _serialize_pg does so whenever the cursor has a description
Outcome(dbname, c, v) ==
    IF dbname = "postgres" /\ ~HasDescription(c) THEN [rowcount |-> 1]
    ELSE [rows |-> RowsReturned(c),
          first |-> << v, IF IsRead(c) THEN dataset.version ELSE 0 >>]

\* the statements are numbered from 0
RowZeroBased(phase, repeat, dur, qps, avg_cpu, avg_mem, res) ==
    [db |-> db, mode |-> mode, phase |-> phase, conc |-> conc, idx |-> idx - 1,
     repeat |-> repeat, comp |-> comp, dur |-> dur, qps |-> qps,
     avg_cpu |-> avg_cpu, avg_mem |-> avg_mem,
     disk_mb |-> DiskField(GetDockerDiskMb(docker)),
     stmt |-> q_iter[idx].query, res |-> res]

\* the keyword arguments of one _log_csv call, the numeric ones as printed;
\* disk_mb=get_docker_disk_mb(container), stmt=query
Row(phase, repeat, dur, qps, avg_cpu, avg_mem, res) ==
    [db |-> db, mode |-> mode, phase |-> phase, conc |-> conc, idx |-> idx,
     repeat |-> repeat, comp |-> comp, dur |-> dur, qps |-> qps,
     avg_cpu |-> avg_cpu, avg_mem |-> avg_mem,
     disk_mb |-> DiskField(GetDockerDiskMb(docker)),
     stmt |-> q_iter[idx].query, res |-> res]

\* an exception leaves _pg_benchmark / _neo_benchmark: nothing catches it
Raise(e, at) ==
    /\ pc' = "failed"
    /\ error' = e
    /\ failedAt' = at

\* only a failed setup makes the exit status non-zero
ExitCodeSetupOnly == IF pc = "failed" /\ failedAt = "start" THEN 1 ELSE 0

\* exit status of the process once the benchmark function has been left:
\* __main__ catches nothing, so an exception that leaves the function ends
\* the interpreter with status 1, and a return ends it with status 0
ExitCode == IF pc = "failed" THEN 1 ELSE 0

\* one executor of the maximal size serves every batch
NewExecutorShared(phase) ==
    /\ max_workers' = SeqMax(CONCURRENCY_LEVELS)
    /\ futs' = <<>>
    /\ exc' = "none"
    /\ started' = Append(started, [key |-> CurKey(phase), inflight |-> InFlight,
                                   ex |-> 1,
                                   workers |-> SeqMax(CONCURRENCY_LEVELS),
                                   submitted |-> 0])

\* ThreadPoolExecutor(max_workers=conc) is entered: a new executor object,
\* the ex-th of the run
NewExecutor(phase) ==
    /\ max_workers' = conc
    /\ futs' = <<>>
    /\ exc' = "none"
    /\ started' = Append(started, [key |-> CurKey(phase), inflight |-> InFlight,
                                   ex |-> Len(started) + 1,
                                   workers |-> conc,
                                   submitted |-> 0])

(***************************************************************************)
(* The orchestrator                                                        *)
(***************************************************************************)
\* cid = _cid_of(container); the pool, the file and the header are set up
Setup ==
    /\ pc = "start"
    /\ \E ok \in BOOLEAN :
         IF ok THEN /\ pc' = "pair_head"
                    /\ header' = Append(header, CSV_HEADER)
                    /\ UNCHANGED failv
               ELSE /\ Raise("SetupError", "start")
                    /\ header' = header
    /\ UNCHANGED << config, pauses, dataset, diskv, samplerv, drv, loopv, futs, max_workers, exc, poolv, envv, measv,
                    log, hist >>

\* body of "for idx, (comp, query) in enumerate(pbar, 1)": if WARMUP_RUNS > 0
\* the warm-up loop counts from 0 and is entered whatever WARMUP_RUNS is
PairHeadFromZero ==
    /\ pc = "pair_head"
    /\ pc' = "warm_head"
    /\ wrep' = 0
    /\ rep' = rep
    /\ UNCHANGED << config, extv, ci, idx, futs, max_workers, exc, poolv, envv, measv,
                    log, failv, hist >>

PairHead ==
    /\ pc = "pair_head"
    /\ IF WARMUP_RUNS > 0
         THEN /\ pc' = "warm_head"
              /\ wrep' = 1
              /\ rep' = rep
         ELSE /\ pc' = "steady_head"
              /\ rep' = 1
              /\ wrep' = wrep
    /\ UNCHANGED << config, extv, ci, idx, futs, max_workers, exc, poolv, envv, measv,
                    log, failv, hist >>

\* for wrep in range(1, WARMUP_RUNS + 1): _run_and_time(_warmup_parallel, ...)
WarmHead ==
    /\ pc = "warm_head"
    /\ IF wrep <= WARMUP_RUNS
         THEN /\ t0' = now
              /\ NewExecutor("warmup")
              /\ pc' = "warm_submit"
              /\ rep' = rep
         ELSE /\ pc' = "steady_head"
              /\ rep' = 1
              /\ UNCHANGED << t0, max_workers, futs, exc, started >>
    /\ UNCHANGED << config, extv, ci, idx, wrep, poolv, envv, start_stats, end_stats,
                    first_result, duration_ms, d, log, failv, snaps >>

\* futs = [ex.submit(func, query) for _ in range(conc)], one submit per step
Submit ==
    /\ pc \in {"warm_submit", "steady_submit"}
    /\ IF Len(futs) < conc
         THEN /\ futs' = Append(futs, [state |-> "pending", query |-> idx,
                                    result |-> [note |-> "none"],
                                    exception |-> "none"])
              /\ started' = [started EXCEPT ![Len(started)].submitted = @ + 1]
              /\ pc' = pc
         ELSE /\ futs' = futs
              /\ started' = started
              /\ pc' = IF pc = "warm_submit" THEN "warm_results" ELSE "steady_first"
    /\ UNCHANGED << config, extv, loopv, max_workers, exc, poolv, envv, measv, log,
                    failv, snaps >>

(***************************************************************************)
(* The worker tasks: _run_pg_query / _run_neo_query                        *)
(***************************************************************************)
NoResult == [note |-> "none"]

IsOk(f) == f.state = "ok"
IsQueryErr(f) == f.state = "err" /\ f.exception = "QueryError"
IsOtherErr(f) == f.state = "err" /\ f.exception # "QueryError"
IsRunning(f) == f.state = "running"
IsPending(f) == f.state = "pending"

\* The code reads futs[0] by position (steady) and all futures alike
\* (as_completed in the warm-up); the futures after the first are
\* interchangeable, so futs[1:] is kept grouped by state.
Grouped(f) ==
    IF Len(f) <= 2 THEN f
    ELSE LET rest == Tail(f)
         IN  << f[1] >> \o SelectSeq(rest, IsOk) \o SelectSeq(rest, IsQueryErr)
                \o SelectSeq(rest, IsOtherErr) \o SelectSeq(rest, IsRunning)
                \o SelectSeq(rest, IsPending)

SetFut(i, st, res, e) ==
    Grouped([futs EXCEPT ![i] = [state |-> st, query |-> futs[i].query,
                                 result |-> res, exception |-> e]])

\* a free worker thread takes the next work item from the executor's FIFO
\* queue and runs it; conn = PG_POOL.getconn()
TaskStart(i) ==
    /\ futs[i].state = "pending"
    /\ \A j \in 1..(i - 1) : futs[j].state # "pending"
    /\ Running < max_workers
    /\ IF db = "postgres"
         THEN IF checkedOut < PoolCapacity
                THEN /\ checkedOut' = checkedOut + 1
                     /\ futs' = SetFut(i, "running", NoResult, "none")
                     /\ poolErrors' = poolErrors
                ELSE /\ futs' = SetFut(i, "err", NoResult, "PoolError")
                     /\ poolErrors' = poolErrors + 1
                     /\ checkedOut' = checkedOut
         ELSE /\ futs' = SetFut(i, "running", NoResult, "none")
              /\ UNCHANGED poolv
    /\ UNCHANGED << config, extv, pc, loopv, max_workers, exc, envv, measv, log,
                    failv, hist >>

\* the worker writes a row of its own when its statement has succeeded
TaskDoneLogs(i) ==
    /\ futs[i].state = "running"
    /\ futs' = SetFut(i, "ok", Outcome(db, comp, DataOf(i)), "none")
    /\ checkedOut' = IF db = "postgres" THEN checkedOut - 1 ELSE checkedOut
    /\ now' = now + TaskTime
    /\ cpu_usec' = cpu_usec + CpuPerTask
    /\ log' = Append(log, Row("steady", rep, NaN, NaN, NaN, NaN,
                              Outcome(db, comp, DataOf(i))))
    /\ dataset' = Effect(comp, dataset)
    /\ UNCHANGED << config, header, pauses, diskv, samplerv, drv, pc, loopv, max_workers, exc, poolErrors, mem_now, measv,
                    failv, hist >>

\* the statement succeeds: return result; finally: PG_POOL.putconn(conn)
TaskDone(i) ==
    /\ futs[i].state = "running"
    /\ futs' = SetFut(i, "ok", Outcome(db, comp, DataOf(i)), "none")
    /\ checkedOut' = IF db = "postgres" THEN checkedOut - 1 ELSE checkedOut
    /\ now' = now + TaskTime
    /\ cpu_usec' = cpu_usec + CpuPerTask
    /\ dataset' = Effect(comp, dataset)
    /\ UNCHANGED << config, header, pauses, diskv, samplerv, drv, pc, loopv, max_workers,
                    exc, poolErrors, mem_now, measv, log, failv, hist >>

\* the statement fails: except: raise; finally: PG_POOL.putconn(conn)
TaskFailLeak(i) ==
    /\ futs[i].state = "running"
    /\ futs' = SetFut(i, "err", NoResult, "QueryError")
    /\ now' = now + TaskTime
    /\ cpu_usec' = cpu_usec + CpuPerTask
    /\ UNCHANGED << config, extv, pc, loopv, max_workers, exc, poolv, mem_now, measv, log,
                    failv, hist >>

TaskFail(i) ==
    /\ futs[i].state = "running"
    /\ futs' = SetFut(i, "err", NoResult, "QueryError")
    /\ checkedOut' = IF db = "postgres" THEN checkedOut - 1 ELSE checkedOut
    /\ now' = now + TaskTime
    /\ cpu_usec' = cpu_usec + CpuPerTask
    /\ UNCHANGED << config, extv, pc, loopv, max_workers, exc, poolErrors, mem_now, measv, log,
                    failv, hist >>

(***************************************************************************)
(* Warm-up: _warmup_parallel under _run_and_time                           *)
(***************************************************************************)
\* only the first-submitted execution of a burst is waited for and looked at
WarmResultsFirstOnly ==
    /\ pc = "warm_results"
    /\ futs[1].state \in {"ok", "err"}
    /\ exc' = IF futs[1].state = "err" THEN futs[1].exception ELSE "none"
    /\ pc' = "warm_exit"
    /\ UNCHANGED << config, extv, loopv, futs, max_workers, poolv, envv, measv, log,
                    failv, hist >>

\* for ft in as_completed(futs): _ = ft.result()
WarmResults ==
    /\ pc = "warm_results"
    /\ \/ \E i \in 1..Len(futs) :
            /\ futs[i].state = "err"
            /\ exc' = futs[i].exception
       \/ /\ \A i \in 1..Len(futs) : futs[i].state = "ok"
          /\ exc' = "none"
    /\ pc' = "warm_exit"
    /\ UNCHANGED << config, extv, loopv, futs, max_workers, poolv, envv, measv, log,
                    failv, hist >>

\* a failed burst is run again
WarmExitRetry ==
    /\ pc = "warm_exit"
    /\ AllDone
    /\ futs' = <<>>
    /\ max_workers' = 0
    /\ exc' = "none"
    /\ pc' = IF exc = "none" THEN "warm_sleep" ELSE "warm_head"
    /\ UNCHANGED << config, extv, loopv, poolv, envv, measv, log, failv, hist >>

\* the with-block is left without waiting: shutdown(wait=False), the
\* executions still in flight are abandoned
WarmExitTimeout ==
    /\ pc = "warm_exit"
    /\ futs' = <<>>
    /\ max_workers' = 0
    /\ exc' = "none"
    /\ checkedOut' = 0
    /\ poolErrors' = poolErrors
    /\ IF exc = "none"
         THEN /\ pc' = "warm_sleep"
              /\ UNCHANGED failv
         ELSE Raise(exc, "warmup")
    /\ UNCHANGED << config, extv, loopv, envv, measv, log, hist >>

\* end of the with-block: shutdown(wait=True), then the pending exception
WarmExit ==
    /\ pc = "warm_exit"
    /\ AllDone
    /\ futs' = <<>>
    /\ max_workers' = 0
    /\ exc' = "none"
    /\ IF exc = "none"
         THEN /\ pc' = "warm_sleep"
              /\ UNCHANGED failv
         ELSE Raise(exc, "warmup")
    /\ UNCHANGED << config, extv, loopv, poolv, envv, measv, log, hist >>

\* _warmup_parallel returns as soon as its executions are joined
WarmSleepSkipped ==
    /\ pc = "warm_sleep"
    /\ duration_ms' = now - t0
    /\ pc' = "warm_log"
    /\ UNCHANGED << config, extv, loopv, futs, max_workers, exc, poolv, envv,
                    t0, start_stats, end_stats, first_result, d, log, failv, hist >>

\* the timer is stopped when the burst is joined, the pause follows
WarmSleepTimerBefore ==
    /\ pc = "warm_sleep"
    /\ duration_ms' = now - t0
    /\ now' = now + WARMUP_SLEEP_MS * 1000
    /\ pauses' = Append(pauses, [key |-> CurKey("warmup"), batches |-> Len(started),
                                 inflight |-> InFlight, ms |-> WARMUP_SLEEP_MS])
    /\ pc' = "warm_log"
    /\ UNCHANGED << config, header, dataset, diskv, samplerv, drv, loopv, futs, max_workers, exc, poolv, cpu_usec, mem_now,
                    t0, start_stats, end_stats, first_result, d, log, failv, hist >>

\* time.sleep(WARMUP_SLEEP); _run_and_time stops its timer
WarmSleep ==
    /\ pc = "warm_sleep"
    /\ now' = now + WARMUP_SLEEP_MS * 1000
    /\ duration_ms' = now' - t0
    /\ pauses' = Append(pauses, [key |-> CurKey("warmup"), batches |-> Len(started),
                                 inflight |-> InFlight, ms |-> WARMUP_SLEEP_MS])
    /\ pc' = "warm_log"
    /\ UNCHANGED << config, header, dataset, diskv, samplerv, drv, loopv, futs, max_workers, exc, poolv, cpu_usec, mem_now,
                    t0, start_stats, end_stats, first_result, d, log, failv, hist >>

\* the output file is opened anew, in mode "w", for every row
WarmLogTruncates ==
    /\ pc = "warm_log"
    /\ log' = << Row("warmup", wrep, DurField(duration_ms), NaN, NaN, NaN,
                     [note |-> "warmup"]) >>
    /\ wrep' = wrep + 1
    /\ pc' = "warm_head"
    /\ UNCHANGED << config, extv, ci, idx, rep, futs, max_workers, exc, poolv, envv,
                    measv, failv, hist >>

\* _log_csv(w, phase="warmup", ..., avg_cpu=nan, avg_mem=nan, qps=nan, ...)
WarmLog ==
    /\ pc = "warm_log"
    /\ log' = Append(log, Row("warmup", wrep, DurField(duration_ms), NaN, NaN, NaN,
                              [note |-> "warmup"]))
    /\ wrep' = wrep + 1
    /\ pc' = "warm_head"
    /\ UNCHANGED << config, extv, ci, idx, rep, futs, max_workers, exc, poolv, envv,
                    measv, failv, hist >>

(***************************************************************************)
(* Steady repetitions                                                      *)
(***************************************************************************)
\* for rep in range(1, REPETITIONS + 1)
SteadyHeadOffByOne ==
    /\ pc = "steady_head"
    /\ pc' = IF rep < REPETITIONS THEN "steady_before" ELSE "query_next"
    /\ UNCHANGED << config, extv, loopv, futs, max_workers, exc, poolv, envv, measv,
                    log, failv, hist >>

SteadyHead ==
    /\ pc = "steady_head"
    /\ pc' = IF rep <= REPETITIONS THEN "steady_before" ELSE "query_next"
    /\ UNCHANGED << config, extv, loopv, futs, max_workers, exc, poolv, envv, measv,
                    log, failv, hist >>

Snap(kind, ok) == [kind |-> kind, key |-> CurKey("steady"), ok |-> ok,
                   stats |-> IF ok THEN ReadCgroupStats ELSE NoStats,
                   inflight |-> InFlight,
                   finished |-> Len(futs) - InFlight,
                   batches |-> Len(started)]

\* a sampler failure is replaced by a NaN snapshot
SteadyBeforeNaN ==
    /\ pc = "steady_before"
    /\ \E ok \in BOOLEAN :
         /\ snaps' = Append(snaps, Snap("before", ok))
         /\ start_stats' = IF ok THEN ReadCgroupStats ELSE NoStats
         /\ pc' = "steady_start"
         /\ UNCHANGED failv
    /\ UNCHANGED << config, extv, loopv, futs, max_workers, exc, poolv, envv, t0,
                    end_stats, first_result, duration_ms, d, log, started >>

\* from the second repetition on, the after-snapshot of the repetition before
\* serves as the before-snapshot
SteadyBeforeReuse ==
    /\ pc = "steady_before"
    /\ IF rep > 1
         THEN /\ start_stats' = end_stats
              /\ pc' = "steady_start"
              /\ UNCHANGED << failv, snaps >>
         ELSE \E ok \in BOOLEAN :
                /\ snaps' = Append(snaps, Snap("before", ok))
                /\ IF ok THEN /\ start_stats' = ReadCgroupStats
                              /\ pc' = "steady_start"
                              /\ UNCHANGED failv
                         ELSE /\ Raise("ResourceUnavailable", "steady_before")
                              /\ start_stats' = start_stats
    /\ UNCHANGED << config, extv, loopv, futs, max_workers, exc, poolv, envv, t0,
                    end_stats, first_result, duration_ms, d, log, started >>

\* start_stats = _read_cgroup_stats(cid): returns the counters or raises
SteadyBefore ==
    /\ pc = "steady_before"
    /\ \E ok \in BOOLEAN :
         /\ snaps' = Append(snaps, Snap("before", ok))
         /\ IF ok THEN /\ start_stats' = ReadCgroupStats
                       /\ pc' = "steady_start"
                       /\ UNCHANGED failv
                  ELSE /\ Raise("ResourceUnavailable", "steady_before")
                       /\ start_stats' = start_stats
    /\ UNCHANGED << config, extv, loopv, futs, max_workers, exc, poolv, envv, t0,
                    end_stats, first_result, duration_ms, d, log, started >>

\* t0 = time.perf_counter_ns(); with ThreadPoolExecutor(max_workers=conc) as ex
SteadyStart ==
    /\ pc = "steady_start"
    /\ t0' = now
    /\ NewExecutor("steady")
    /\ pc' = "steady_submit"
    /\ UNCHANGED << config, extv, loopv, poolv, envv, start_stats, end_stats,
                    first_result, duration_ms, d, log, failv, snaps >>

\* the batch is drained like a warm-up burst: the failure of any execution
\* is re-raised
SteadyFirstAny ==
    /\ pc = "steady_first"
    /\ AllDone
    /\ IF \E i \in 1..Len(futs) : futs[i].state = "err"
         THEN /\ exc' = futs[CHOOSE i \in 1..Len(futs) : futs[i].state = "err"].exception
              /\ first_result' = first_result
         ELSE /\ first_result' = futs[1].result
              /\ exc' = "none"
    /\ pc' = "steady_exit"
    /\ UNCHANGED << config, extv, loopv, futs, max_workers, poolv, envv, t0,
                    start_stats, end_stats, duration_ms, d, log, failv, hist >>

\* the exception of futs[0] leaves the benchmark function at once, the
\* executor is not joined
SteadyFirstRaisesAtOnce ==
    /\ pc = "steady_first"
    /\ futs[1].state \in {"ok", "err"}
    /\ IF futs[1].state = "ok"
         THEN /\ first_result' = futs[1].result
              /\ exc' = "none"
              /\ pc' = "steady_exit"
              /\ UNCHANGED failv
         ELSE /\ exc' = exc
              /\ first_result' = first_result
              /\ Raise(futs[1].exception, "steady")
    /\ UNCHANGED << config, extv, loopv, futs, max_workers, poolv, envv, t0,
                    start_stats, end_stats, duration_ms, d, log, hist >>

\* the outcome of the last-submitted execution is kept
SteadyFirstLast ==
    /\ pc = "steady_first"
    /\ futs[Len(futs)].state \in {"ok", "err"}
    /\ IF futs[Len(futs)].state = "ok"
         THEN /\ first_result' = futs[Len(futs)].result
              /\ exc' = "none"
         ELSE /\ exc' = futs[Len(futs)].exception
              /\ first_result' = first_result
    /\ pc' = "steady_exit"
    /\ UNCHANGED << config, extv, loopv, futs, max_workers, poolv, envv, t0,
                    start_stats, end_stats, duration_ms, d, log, failv, hist >>

\* first_result = futs[0].result()
SteadyFirst ==
    /\ pc = "steady_first"
    /\ futs[1].state \in {"ok", "err"}
    /\ IF futs[1].state = "ok"
         THEN /\ first_result' = futs[1].result
              /\ exc' = "none"
         ELSE /\ exc' = futs[1].exception
              /\ first_result' = first_result
    /\ pc' = "steady_exit"
    /\ UNCHANGED << config, extv, loopv, futs, max_workers, poolv, envv, t0,
                    start_stats, end_stats, duration_ms, d, log, failv, hist >>

\* the error is caught at the repetition boundary, the statement's remaining
\* repetitions are skipped
SteadyExitCatch ==
    /\ pc = "steady_exit"
    /\ AllDone
    /\ futs' = futs
    /\ max_workers' = 0
    /\ exc' = "none"
    /\ IF exc = "none"
         THEN /\ duration_ms' = now - t0
              /\ pc' = "steady_after"
         ELSE /\ duration_ms' = duration_ms
              /\ pc' = "query_next"
    /\ UNCHANGED << config, extv, loopv, poolv, envv, t0, start_stats, end_stats,
                    first_result, d, log, failv, hist >>

\* the error is caught and logged as a degraded row
SteadyExitDegraded ==
    /\ pc = "steady_exit"
    /\ AllDone
    /\ futs' = futs
    /\ max_workers' = 0
    /\ exc' = "none"
    /\ IF exc = "none"
         THEN /\ duration_ms' = now - t0
              /\ pc' = "steady_after"
              /\ log' = log
         ELSE /\ duration_ms' = duration_ms
              /\ pc' = "query_next"
              /\ log' = Append(log, Row("steady", rep, NaN, NaN, NaN, NaN,
                                        [error |-> exc]))
    /\ UNCHANGED << config, extv, loopv, poolv, envv, t0, start_stats, end_stats,
                    first_result, d, failv, hist >>

\* the with-block is left without waiting for the other tasks
SteadyExitNoWait ==
    /\ pc = "steady_exit"
    /\ exc' = "none"
    /\ IF exc = "none"
         THEN /\ duration_ms' = now - t0
              /\ pc' = "steady_after"
              /\ UNCHANGED failv
         ELSE /\ duration_ms' = duration_ms
              /\ Raise(exc, "steady")
    /\ UNCHANGED << config, extv, loopv, futs, max_workers, poolv, envv, t0,
                    start_stats, end_stats, first_result, d, log, hist >>

\* the timer's two readings are subtracted the wrong way round
SteadyExitNegated ==
    /\ pc = "steady_exit"
    /\ AllDone
    /\ futs' = futs
    /\ max_workers' = 0
    /\ exc' = "none"
    /\ IF exc = "none"
         THEN /\ duration_ms' = t0 - now
              /\ pc' = "steady_after"
              /\ UNCHANGED failv
         ELSE /\ duration_ms' = duration_ms
              /\ Raise(exc, "steady")
    /\ UNCHANGED << config, extv, loopv, poolv, envv, t0, start_stats, end_stats,
                    first_result, d, log, hist >>

\* end of the with-block: shutdown(wait=True), then the pending exception;
\* duration_ms = (time.perf_counter_ns() - t0) / 1_000_000
SteadyExit ==
    /\ pc = "steady_exit"
    /\ AllDone
    /\ futs' = futs
    /\ max_workers' = 0
    /\ exc' = "none"
    /\ IF exc = "none"
         THEN /\ duration_ms' = now - t0
              /\ pc' = "steady_after"
              /\ UNCHANGED failv
         ELSE /\ duration_ms' = duration_ms
              /\ Raise(exc, "steady")
    /\ UNCHANGED << config, extv, loopv, poolv, envv, t0, start_stats, end_stats,
                    first_result, d, log, hist >>

\* end_stats = _read_cgroup_stats(cid): returns the counters or raises
SteadyAfter ==
    /\ pc = "steady_after"
    /\ \E ok \in BOOLEAN :
         /\ snaps' = Append(snaps, Snap("after", ok))
         /\ IF ok THEN /\ end_stats' = ReadCgroupStats
                       /\ pc' = "steady_log"
                       /\ UNCHANGED failv
                  ELSE /\ Raise("ResourceUnavailable", "steady_after")
                       /\ end_stats' = end_stats
    /\ UNCHANGED << config, extv, loopv, futs, max_workers, exc, poolv, envv, t0,
                    start_stats, first_result, duration_ms, d, log, started >>

\* the CPU column is computed from the after-snapshot's counter alone
SteadyLogCumulative ==
    /\ pc = "steady_log"
    /\ d' = Delta(start_stats, end_stats)
    /\ IF duration_ms = 0
         THEN /\ Raise("ZeroDivisionError", "steady_log")
              /\ UNCHANGED << log, rep >>
         ELSE /\ log' = Append(log,
                   Row("steady", rep, DurField(duration_ms), Qps(conc, duration_ms),
                       AvgCpu(end_stats, duration_ms),
                       AvgMem(start_stats, end_stats), first_result))
              /\ rep' = rep + 1
              /\ pc' = "steady_head"
              /\ UNCHANGED failv
    /\ UNCHANGED << config, extv, ci, idx, wrep, futs, max_workers, exc, poolv, envv,
                    t0, start_stats, end_stats, first_result, duration_ms, hist >>

\* d = _delta(...); qps, avg_cpu, avg_mem; _log_csv(w, phase="steady", ...)
SteadyLog ==
    /\ pc = "steady_log"
    /\ d' = Delta(start_stats, end_stats)
    /\ IF duration_ms = 0
         THEN /\ Raise("ZeroDivisionError", "steady_log")
              /\ UNCHANGED << log, rep >>
         ELSE /\ log' = Append(log,
                   Row("steady", rep, DurField(duration_ms), Qps(conc, duration_ms),
                       AvgCpu(d', duration_ms),
                       AvgMem(start_stats, end_stats), first_result))
              /\ rep' = rep + 1
              /\ pc' = "steady_head"
              /\ UNCHANGED failv
    /\ UNCHANGED << config, extv, ci, idx, wrep, futs, max_workers, exc, poolv, envv,
                    t0, start_stats, end_stats, first_result, duration_ms, hist >>

\* the statement loop is the outer loop, the level loop the inner one
QueryNextSwapped ==
    /\ pc = "query_next"
    /\ IF ci < Len(CONCURRENCY_LEVELS)
         THEN /\ ci' = ci + 1
              /\ idx' = idx
              /\ pc' = "pair_head"
         ELSE IF idx < Len(q_iter)
                THEN /\ idx' = idx + 1
                     /\ ci' = 1
                     /\ pc' = "pair_head"
                ELSE /\ pc' = "done"
                     /\ UNCHANGED << ci, idx >>
    /\ UNCHANGED << config, extv, wrep, rep, futs, max_workers, exc, poolv, envv,
                    measv, log, failv, hist >>

\* next statement of pbar, else next level of CONCURRENCY_LEVELS, else the
\* file is closed and PG_POOL.closeall() ends the benchmark
QueryNext ==
    /\ pc = "query_next"
    /\ IF idx < Len(q_iter)
         THEN /\ idx' = idx + 1
              /\ ci' = ci
              /\ pc' = "pair_head"
         ELSE IF ci < Len(CONCURRENCY_LEVELS)
                THEN /\ ci' = ci + 1
                     /\ idx' = 1
                     /\ pc' = "pair_head"
                ELSE /\ pc' = "done"
                     /\ UNCHANGED << ci, idx >>
    /\ UNCHANGED << config, extv, wrep, rep, futs, max_workers, exc, poolv, envv,
                    measv, log, failv, hist >>

Next ==
    \/ Setup
    \/ PairHead
    \/ WarmHead
    \/ Submit
    \/ \E i \in 1..Len(futs) : TaskStart(i)
    \/ \E i \in 1..Len(futs) : TaskDone(i)
    \/ \E i \in 1..Len(futs) : TaskFail(i)
    \/ WarmResults
    \/ WarmExit
    \/ WarmSleep
    \/ WarmLog
    \/ SteadyHead
    \/ SteadyBefore
    \/ SteadyStart
    \/ SteadyFirst
    \/ SteadyExit
    \/ SteadyAfter
    \/ SteadyLog
    \/ QueryNext

Spec == Init /\ [][Next]_vars

(***************************************************************************)
(* The run with a catalog of one statement, --warmups 1, --repetitions 2  *)
(***************************************************************************)
InitE2E ==
    /\ \E v \in Variants : db = v[1] /\ mode = v[2]
    /\ WARMUP_RUNS = 1
    /\ REPETITIONS = 2
    /\ queries = Catalog(1)
    /\ pc = "start"
    /\ Container
    /\ Start

SpecE2E == InitE2E /\ [][Next]_vars

(***************************************************************************)
(* The sampler alone: two snapshots of one running container, taken one    *)
(* after the other, and their _delta                                       *)
(***************************************************************************)
\* readings memory.current can give
MemValues == {(MemNowMiB + k) * 1024 * 1024 : k \in 0..MemSteps}

InitDelta ==
    /\ db \in {"postgres", "neo4j"}
    /\ mode = "normal"
    /\ dataset = [rows |-> DatasetRows, version |-> 0]
    /\ docker = HealthyDocker
    /\ cgroup_visible = TRUE
    /\ WARMUP_RUNS = 0
    /\ REPETITIONS = 0
    /\ queries = Catalog(1)
    /\ pc = "sampler"
    /\ cpu_usec \in {k * CpuPerTask : k \in 0..CpuSteps}
    /\ mem_now \in MemValues
    /\ Start

\* the container computes: usage_usec is a cumulative counter
ContainerRuns ==
    /\ pc \in {"sampler", "sampled_before"}
    /\ cpu_usec < 2 * CpuSteps * CpuPerTask
    /\ cpu_usec' = cpu_usec + CpuPerTask
    /\ UNCHANGED << config, extv, pc, loopv, futs, max_workers, exc, poolv, now, mem_now,
                    measv, log, failv, hist >>

\* the container allocates or frees memory: memory.current is a gauge
MemoryChanges ==
    /\ pc \in {"sampler", "sampled_before"}
    /\ \E m \in MemValues \ {mem_now} : mem_now' = m
    /\ UNCHANGED << config, extv, pc, loopv, futs, max_workers, exc, poolv, now, cpu_usec,
                    measv, log, failv, hist >>

\* before = _read_cgroup_stats(cid)
SampleBefore ==
    /\ pc = "sampler"
    /\ start_stats' = ReadCgroupStats
    /\ pc' = "sampled_before"
    /\ UNCHANGED << config, extv, loopv, futs, max_workers, exc, poolv, envv, t0,
                    end_stats, first_result, duration_ms, d, log, failv, hist >>

\* after = _read_cgroup_stats(cid), later
SampleAfter ==
    /\ pc = "sampled_before"
    /\ end_stats' = ReadCgroupStats
    /\ pc' = "sampled_after"
    /\ UNCHANGED << config, extv, loopv, futs, max_workers, exc, poolv, envv, t0,
                    start_stats, first_result, duration_ms, d, log, failv, hist >>

\* d = _delta(before, after)
ApplyDelta ==
    /\ pc = "sampled_after"
    /\ d' = Delta(start_stats, end_stats)
    /\ pc' = "delta_done"
    /\ UNCHANGED << config, extv, loopv, futs, max_workers, exc, poolv, envv, t0,
                    start_stats, end_stats, first_result, duration_ms, log,
                    failv, hist >>

NextDelta ==
    \/ ContainerRuns
    \/ MemoryChanges
    \/ SampleBefore
    \/ SampleAfter
    \/ ApplyDelta

SpecDelta == InitDelta /\ [][NextDelta]_vars

(***************************************************************************)
(* Vocabulary of the properties                                            *)
(***************************************************************************)
LevelPos(c) == CHOOSE i \in 1..Len(CONCURRENCY_LEVELS) : CONCURRENCY_LEVELS[i] = c

\* <<level position, statement number, phase, repetition>> of a row
RowKey(r) == << LevelPos(r.conc), r.idx, PhaseNo(r.phase), r.repeat >>

LexLess(a, b) ==
    \E k \in 1..4 : a[k] < b[k] /\ \A j \in 1..(k - 1) : a[j] = b[j]

RowsOf(key) == {k \in 1..Len(log) : RowKey(log[k]) = key}

PairRows(l, q, phase) ==
    {k \in 1..Len(log) :
        log[k].conc = CONCURRENCY_LEVELS[l] /\ log[k].idx = q /\ log[k].phase = phase}

StartedKeys == {started[k].key : k \in 1..Len(started)}

\* the key the k-th row of a run has when levels are the outer loop, statements
\* the middle loop and warm-ups precede the repetitions
ExpectedKey(k) ==
    LET per    == WARMUP_RUNS + REPETITIONS
        pair   == (k - 1) \div per
        within == (k - 1) % per
    IN  << (pair \div Len(q_iter)) + 1,
           (pair % Len(q_iter)) + 1,
           IF within < WARMUP_RUNS THEN 1 ELSE 2,
           IF within < WARMUP_RUNS THEN within + 1 ELSE within - WARMUP_RUNS + 1 >>

\* C1 (as stated): a query error that fails a steady repetition never aborts
\* the run; the orchestrator goes on with the next statement.
C1_SteadyQueryErrorKeepsRunning ==
    ~(pc = "failed" /\ failedAt = "steady" /\ error = "QueryError")

\* C1 (amended): when the first-submitted execution of a steady repetition
\* fails, the error leaves the benchmark function once the batch is joined,
\* and after that the orchestrator takes no further step: no remaining
\* repetition, no later statement and no later concurrency level is run.
C1_SteadyQueryErrorAbortsRun ==
    [][ /\ (pc = "steady_first" /\ futs[1].state = "err" /\ pc' # pc
               => pc' = "steady_exit" /\ exc' = futs[1].exception)
        /\ (pc = "steady_exit" /\ exc # "none" /\ pc' # pc
               => AllDone /\ pc' = "failed" /\ error' = exc
                  /\ failedAt' = "steady" /\ log' = log /\ started' = started)
        /\ (pc = "failed" => FALSE) ]_vars

C1_Witness ==
    /\ pc = "failed" /\ failedAt = "steady" /\ error = "QueryError"
    /\ rep < REPETITIONS
    /\ idx < Len(q_iter)
    /\ ci < Len(CONCURRENCY_LEVELS)

\* C2 (as stated): a steady repetition whose batch failed with a query error
\* has exactly one row, with NaN metrics and the error kept in the result.
C2_FailedRepetitionHasDegradedRow ==
    pc = "failed" /\ failedAt = "steady" =>
        /\ Cardinality(RowsOf(CurKey("steady"))) = 1
        /\ \A k \in RowsOf(CurKey("steady")) :
              log[k].qps.nan /\ log[k].avg_cpu.nan /\ "error" \in DOMAIN log[k].res

\* C2 (amended): a steady repetition whose batch failed with a query error
\* has no row at all, and no steady row ever carries NaN in duration or qps
\* or an error in place of the first execution's outcome.
C2_FailedRepetitionHasNoRow ==
    /\ (pc = "steady_exit" /\ exc # "none") \/ (pc = "failed" /\ failedAt = "steady")
          => RowsOf(CurKey("steady")) = {}
    /\ \A k \in 1..Len(log) :
          log[k].phase = "steady" =>
             /\ ~log[k].dur.nan
             /\ ~log[k].qps.nan
             /\ log[k].res = Outcome(log[k].db, log[k].comp, DataOf(1))

C2_Witness ==
    /\ pc = "failed" /\ failedAt = "steady" /\ error = "QueryError"
    /\ \E k \in 1..Len(log) :
          /\ log[k].phase = "steady"
          /\ RowKey(log[k])[1] = ci /\ RowKey(log[k])[2] = idx
          /\ log[k].repeat = rep - 1

\* C3 (as stated): a sampler that cannot read the counters never aborts the
\* repetition or the run.
C3_SamplerFailureKeepsRunning ==
    ~(pc = "failed" /\ error = "ResourceUnavailable")

\* C3 (amended): a failed sampler read raises out of the benchmark function
\* and ends the run: after a failed before-snapshot the batch is never started,
\* after a failed after-snapshot the batch has run but the repetition has no
\* row, and no steady row carries NaN in avg_cpu or avg_mem.
C3_SamplerFailureAbortsRun ==
    /\ \A k \in 1..Len(snaps) :
          ~snaps[k].ok =>
             /\ k = Len(snaps)
             /\ pc = "failed" /\ error = "ResourceUnavailable"
             /\ failedAt = "steady_" \o snaps[k].kind
             /\ RowsOf(snaps[k].key) = {}
             /\ (snaps[k].kind = "before") = (snaps[k].key \notin StartedKeys)
    /\ \A k \in 1..Len(log) :
          log[k].phase = "steady" => ~log[k].avg_cpu.nan /\ ~log[k].avg_mem.nan

C3_Witness ==
    /\ pc = "failed" /\ error = "ResourceUnavailable" /\ failedAt = "steady_after"
    /\ CurKey("steady") \in StartedKeys
    /\ rep < REPETITIONS

\* C4: in a run that completes, every (concurrency level, statement) pair has
\* exactly WARMUP_RUNS rows of phase warmup and exactly REPETITIONS rows of
\* phase steady, and no row has another phase.
C4_RowsPerPair ==
    pc = "done" =>
        /\ \A l \in 1..Len(CONCURRENCY_LEVELS), q \in 1..Len(q_iter) :
              /\ Cardinality(PairRows(l, q, "warmup")) = WARMUP_RUNS
              /\ Cardinality(PairRows(l, q, "steady")) = REPETITIONS
        /\ \A k \in 1..Len(log) : log[k].phase \in {"warmup", "steady"}
        /\ Len(log) = Len(CONCURRENCY_LEVELS) * Len(q_iter) * (WARMUP_RUNS + REPETITIONS)

C4_Witness ==
    /\ pc = "done"
    /\ WARMUP_RUNS > 0
    /\ REPETITIONS > 1
    /\ Len(log) > 0

\* C5: the rows are written in lexicographic order of (level position,
\* statement position, warmup before steady, repetition from 1), and the
\* k-th row has the key that the configuration alone determines, whatever
\* the interleaving of the worker tasks was.
C5_RowOrder ==
    /\ \A i \in 1..(Len(log) - 1) : LexLess(RowKey(log[i]), RowKey(log[i + 1]))
    /\ \A k \in 1..Len(log) : RowKey(log[k]) = ExpectedKey(k)

C5_Witness ==
    \E k \in 1..(Len(log) - 1) :
        /\ RowKey(log[k]) = << 1, Len(q_iter), 2, REPETITIONS >>
        /\ RowKey(log[k + 1]) = << 2, 1, 1, 1 >>
        /\ Len(q_iter) > 1

\* C6: per pair the batches run warm-ups first, then the repetitions, each
\* once: the batches are started in strictly increasing key order (no batch
\* twice, none of an earlier pair after a later one), a batch starts only
\* when no task of an earlier batch is in flight, and a pair's first
\* repetition starts only after all WARMUP_RUNS bursts of the pair.
C6_ForwardOnly ==
    /\ \A i \in 1..(Len(started) - 1) :
          LexLess(started[i].key, started[i + 1].key)
    /\ \A i \in 1..Len(started) :
          LET k == started[i].key IN
          /\ started[i].inflight = 0
          /\ k[3] = 1 => k[4] \in 1..WARMUP_RUNS
          /\ k[3] = 2 /\ k[4] = 1 =>
                /\ i > WARMUP_RUNS
                /\ \A w \in 1..WARMUP_RUNS :
                      started[i - WARMUP_RUNS + w - 1].key = << k[1], k[2], 1, w >>
          /\ k[3] = 2 /\ k[4] > 1 =>
                started[i - 1].key = << k[1], k[2], 2, k[4] - 1 >>

C6_Witness ==
    /\ WARMUP_RUNS > 1
    /\ \E i \in 1..Len(started) : started[i].key = << 2, 2, 2, 2 >>
    /\ pc = "done"

\* C7: every snapshot is taken while no execution is in flight; the
\* before-snapshot of a repetition precedes the creation of its batch, and
\* the after-snapshot follows the end of all conc executions of that batch.
C7_SnapshotsOutsideBatches ==
    \A k \in 1..Len(snaps) :
        LET s == snaps[k] IN
        /\ s.inflight = 0
        /\ s.kind = "before" =>
              /\ s.batches < Len(started) => started[s.batches + 1].key = s.key
              /\ s.batches >= 1 => LexLess(started[s.batches].key, s.key)
        /\ s.kind = "after" =>
              /\ s.batches >= 1
              /\ started[s.batches].key = s.key
              /\ s.finished = CONCURRENCY_LEVELS[s.key[1]]

C7_Witness ==
    \E k \in 1..Len(snaps) :
        /\ snaps[k].kind = "after"
        /\ snaps[k].finished > 1
        /\ \E i \in 1..Len(futs) : futs[i].state = "err"
        /\ pc = "steady_log"

\* C8: an execution through the relational executor holds one connection
\* while it runs and has returned it when it ends, by success or by error:
\* the connections checked out are exactly those of the running executions,
\* and none is checked out when no batch is running.
C8_ConnectionsReturned ==
    /\ db = "postgres" => checkedOut = Running
    /\ db = "neo4j" => checkedOut = 0
    /\ max_workers = 0 => checkedOut = 0
    /\ pc \in {"done", "failed"} => checkedOut = 0

C8_Witness ==
    /\ db = "postgres"
    /\ pc = "failed" /\ error = "QueryError"
    /\ Cardinality({i \in 1..Len(futs) : futs[i].state = "err"}) > 1
    /\ checkedOut = 0

\* C10: the connections checked out never exceed the concurrency level of
\* the running batch, that level never exceeds the pool's capacity
\* max(CONCURRENCY_LEVELS), and no getconn ever fails for lack of a free
\* connection.
C10_PoolNeverExhausted ==
    /\ checkedOut <= max_workers
    /\ max_workers \in {0, conc}
    /\ max_workers <= PoolCapacity
    /\ poolErrors = 0
    /\ \A i \in 1..Len(futs) : futs[i].exception # "PoolError"

C10_Witness ==
    /\ db = "postgres"
    /\ checkedOut = SeqMax(CONCURRENCY_LEVELS)
    /\ checkedOut > 1

\* C11: every batch, warm-up or steady, at concurrency level N submits
\* exactly N executions, all of the statement the batch is for, to an
\* executor created for this batch with exactly N workers: the i-th batch of
\* a run uses the i-th executor created, so no executor serves two batches.
C11_OnePoolOfSizeNPerBatch ==
    /\ \A i \in 1..Len(started) :
          LET e == started[i]
              n == CONCURRENCY_LEVELS[e.key[1]]
          IN  /\ e.workers = n
              /\ e.ex = i
              /\ e.submitted <= n
              /\ i < Len(started) => e.submitted = n
    /\ Len(started) > 0 =>
          LET e == started[Len(started)] IN
          /\ pc \notin {"warm_submit", "steady_submit"} => e.submitted = e.workers
          /\ max_workers \in {0, e.workers}
          /\ Len(futs) \in {0, e.submitted}
          /\ \A j \in 1..Len(futs) : futs[j].query = e.key[2]

C11_Witness ==
    /\ pc = "done"
    /\ \E i \in 1..(Len(started) - 1) :
          /\ started[i].key[3] = 1 /\ started[i].submitted > 1
          /\ started[i + 1].key[3] = 2 /\ started[i + 1].submitted > 1
          /\ started[i + 1].key[2] > 1

\* C12: the outcome kept in a steady row is the outcome of the first-submitted
\* execution of that repetition's batch, whichever execution finished first
\* and whatever became of the others: every steady row carries the data of a
\* first-submitted execution, and the row just written carries the result of
\* futs[0] of the batch just run.
C12_FirstSubmittedOutcomeLogged ==
    /\ \A k \in 1..Len(log) :
          log[k].phase = "steady" =>
             log[k].res = Outcome(log[k].db, log[k].comp, DataOf(1))
    /\ Len(log) > 0 /\ Len(started) > 0 =>
          LET r == log[Len(log)] IN
          r.phase = "steady" /\ RowKey(r) = started[Len(started)].key =>
             /\ futs[1].state = "ok"
             /\ r.res = futs[1].result

C12_Witness ==
    /\ Len(log) > 0 /\ Len(started) > 0
    /\ log[Len(log)].phase = "steady"
    /\ RowKey(log[Len(log)]) = started[Len(started)].key
    /\ Len(futs) > 2
    /\ futs[2].state = "ok" /\ futs[2].result # futs[1].result
    /\ futs[Len(futs)].state = "err"

\* C13: the duration of a batch is measured from before its first submission
\* until after all its executions have completed: the timer is read when the
\* batch's executor is created, with nothing submitted yet, it is not
\* restarted while the batch runs, and it is stopped only once all conc
\* executions are done (after the pause, for a warm-up burst); the duration
\* written to a row is that difference, is never negative, and no execution
\* is running when it is written.
C13_DurationSpansBatch ==
    [][ /\ (pc' \in {"warm_submit", "steady_submit"} /\ pc' # pc
               => t0' = now /\ futs' = <<>>)
        /\ (pc \in {"warm_submit", "warm_results", "warm_exit", "warm_sleep",
                    "steady_submit", "steady_first", "steady_exit"}
               => t0' = t0 /\ now' >= now)
        /\ (pc = "steady_exit" /\ pc' = "steady_after"
               => /\ AllDone /\ Len(futs) = conc
                  /\ duration_ms' = now - t0
                  /\ duration_ms' >= conc * TaskTime)
        /\ (pc = "warm_exit" /\ pc' = "warm_sleep"
               => AllDone /\ Len(futs) = conc)
        /\ (pc = "warm_sleep" /\ pc' = "warm_log"
               => /\ duration_ms' = now' - t0
                  /\ duration_ms' >= conc * TaskTime)
        /\ (log' # log
               => /\ InFlight = 0
                  /\ duration_ms >= 0
                  /\ log'[Len(log')].dur = DurField(duration_ms)) ]_vars

C13_Witness ==
    /\ pc = "steady_head"
    /\ Len(log) > 0
    /\ log[Len(log)].phase = "steady"
    /\ log[Len(log)].conc > 1
    /\ log[Len(log)].dur = DurField(log[Len(log)].conc * TaskTime)
    /\ \E i \in 1..Len(futs) : futs[i].state = "err"

\* C14: rows are written only by the orchestrator's sequential loop: every
\* step that changes the output file is a step of the loop at one of its two
\* logging positions, it is no step of a worker task (no future and no
\* connection changes in it), and no execution is pending or running and no
\* executor is open when it is taken.
C14_OnlyOrchestratorWrites ==
    [][ log' # log =>
           /\ pc \in {"warm_log", "steady_log"}
           /\ pc' # pc
           /\ futs' = futs
           /\ checkedOut' = checkedOut
           /\ InFlight = 0
           /\ max_workers = 0 ]_vars

C14_Witness ==
    /\ pc = "warm_head"
    /\ Len(log) > 0
    /\ log[Len(log)].phase = "warmup"
    /\ log[Len(log)].conc > 1
    /\ InFlight = 0
    /\ started[Len(started)].submitted = log[Len(log)].conc

\* C15 (as stated): each warm-up burst and each steady repetition causes
\* exactly one log call: when the run has ended, the rows are, one for one
\* and in order, the batches that were started.
C15_OneRowPerBatch ==
    pc \in {"done", "failed"} =>
        /\ Len(log) = Len(started)
        /\ \A i \in 1..Len(log) : RowKey(log[i]) = started[i].key

\* C15 (amended): a warm-up burst or steady repetition that ends without an
\* exception causes exactly one log call, one that raises causes none and is
\* the last of the run; every call appends one row after all rows written
\* before, and no row is ever rewritten, removed or reordered, so the output
\* at any moment is a prefix of the final output.
C15_AppendOnly ==
    [][ /\ \/ log' = log
           \/ /\ Len(log') = Len(log) + 1
              /\ SubSeq(log', 1, Len(log)) = log
              /\ RowKey(log'[Len(log')]) = started[Len(started)].key
        /\ Len(log') \in {Len(started') - 1, Len(started')}
        /\ pc' = "done" => Len(log') = Len(started')
        /\ pc' = "failed" /\ failedAt' \in {"warmup", "steady", "steady_after", "steady_log"}
              => Len(log') = Len(started') - 1 ]_vars

C15_Witness ==
    /\ pc = "failed" /\ failedAt = "warmup"
    /\ Len(log) = Len(started) - 1
    /\ Len(log) > 2
    /\ log[Len(log)].phase = "steady"

\* C16: every warm-up row carries NaN in avg_cpu and avg_mem, and every
\* steady row carries the values computed from the two snapshots taken for
\* that very repetition, the last two of the run when the row is written:
\* CPU time used between them over the batch's duration and the cores, and
\* the mean of their two memory readings; a steady row never carries NaN.
C16_ResourceColumns ==
    [][ log' # log =>
           LET r == log'[Len(log')] IN
           /\ r.phase = "warmup" => r.avg_cpu = NaN /\ r.avg_mem = NaN
           /\ r.phase = "steady" =>
                 /\ Len(snaps) >= 2
                 /\ LET b == snaps[Len(snaps) - 1]
                        a == snaps[Len(snaps)]
                    IN  /\ b.kind = "before" /\ b.ok /\ b.key = RowKey(r)
                        /\ a.kind = "after" /\ a.ok /\ a.key = RowKey(r)
                        /\ r.avg_cpu =
                              Num(Fmt2((a.stats.cpu_usec.v - b.stats.cpu_usec.v) * 10000,
                                       duration_ms * CPU_CORES))
                        /\ r.avg_mem =
                              Num(Fmt2((a.stats.mem_now.v + b.stats.mem_now.v) * 25,
                                       512 * 1024)) ]_vars

C16_Witness ==
    /\ Len(log) > 2
    /\ log[1].phase = "warmup" /\ log[1].avg_cpu.nan /\ log[1].avg_mem.nan
    /\ log[Len(log)].phase = "steady"
    /\ log[Len(log)].repeat = 2
    /\ log[Len(log)].avg_cpu.v > 0
    /\ log[Len(log)].avg_mem = Num(MemNowMiB * 100)

\* the rows of the concurrency levels 1 and 3
RowsAtLevels1And3 == SelectSeq(log, LAMBDA r : r.conc \in {1, 3})

\* C17 (as stated): a one-statement catalog run at levels [1, 3] with one
\* warm-up and two repetitions leaves exactly 6 rows, 2 of phase warmup and
\* 4 of phase steady, all with statement index 0.
C17_SixRowsIndexZero ==
    pc = "done" =>
        LET rows == RowsAtLevels1And3 IN
        /\ Len(rows) = 6
        /\ Len(SelectSeq(rows, LAMBDA r : r.phase = "warmup")) = 2
        /\ Len(SelectSeq(rows, LAMBDA r : r.phase = "steady")) = 4
        /\ \A k \in 1..Len(rows) : rows[k].idx = 0

\* C17 (amended): that run leaves exactly 6 rows for the levels 1 and 3 (all
\* its rows when these are the only levels), 2 of phase warmup and 4 of phase
\* steady, and all of them carry the statement number 1, statements being
\* numbered from 1.
C17_SixRowsNumberOne ==
    pc = "done" =>
        LET rows == RowsAtLevels1And3 IN
        /\ Len(rows) = 6
        /\ Len(CONCURRENCY_LEVELS) = 2 => rows = log
        /\ Len(SelectSeq(rows, LAMBDA r : r.phase = "warmup")) = 2
        /\ Len(SelectSeq(rows, LAMBDA r : r.phase = "steady")) = 4
        /\ \A k \in 1..Len(rows) : rows[k].idx = 1

C17_Witness ==
    /\ pc = "done"
    /\ Len(q_iter) = 1 /\ WARMUP_RUNS = 1 /\ REPETITIONS = 2
    /\ Len(RowsAtLevels1And3) = 6
    /\ log[6].conc = 3 /\ log[6].phase = "steady" /\ log[6].repeat = 2

\* C18 (as stated): the process exits with a non-zero status when setup
\* fails and with status zero in every other case, also when repetitions
\* failed with query errors.
C18_NonZeroOnlyOnSetupFailure ==
    pc \in {"done", "failed"} =>
        (ExitCode # 0) = (pc = "failed" /\ failedAt = "start")

\* C18 (amended): the process exits with a non-zero status whenever an
\* exception has left the benchmark function, be it a failed setup, a failed
\* execution of a warm-up burst, a failed first-submitted execution of a
\* steady repetition or a failed sampler read, and with status zero exactly
\* when the run has gone through all levels and statements.
C18_NonZeroOnAnyUncaughtError ==
    pc \in {"done", "failed"} =>
        /\ (ExitCode = 0) = (pc = "done" /\ error = "none")
        /\ (ExitCode # 0) = (error \in {"SetupError", "QueryError", "PoolError",
                                        "ResourceUnavailable", "ZeroDivisionError"})
        /\ failedAt = "start" => ExitCode # 0
        /\ failedAt \in {"warmup", "steady"} => ExitCode # 0 /\ error # "none"

C18_Witness ==
    /\ pc = "failed" /\ failedAt = "steady" /\ error = "QueryError"
    /\ ExitCode # 0
    /\ Len(log) > 0

\* C19 (as stated): in every steady row, qps is concurrency * 1000 /
\* duration_ms computed from the concurrency and duration_ms columns of
\* that same row (compared at the two decimals the row prints).
C19_QpsFromRowFields ==
    \A k \in 1..Len(log) :
        log[k].phase = "steady" /\ log[k].dur.v > 0 =>
            log[k].qps = Num(Fmt2(log[k].conc * 10000000, log[k].dur.v))

\* C19 (amended): in every steady row, qps is concurrency * 1000 /
\* duration_ms computed from the measured, unrounded duration and then
\* printed with two decimals, as the duration column is; with the row's own
\* columns the identity holds only up to these two roundings:
\* |qps * duration_ms - concurrency * 1000| <= (qps + duration_ms) / 200 + 0.0001.
C19_QpsFromMeasuredDuration ==
    [][ log' # log /\ log'[Len(log')].phase = "steady" =>
           LET r == log'[Len(log')]
               e == r.qps.v * r.dur.v - r.conc * 10000000
           IN  /\ r.dur = Num(Fmt2(duration_ms, 10))
               /\ r.qps = Num(Fmt2(r.conc * 100000000, duration_ms))
               /\ 2 * e <= r.qps.v + r.dur.v + 2
               /\ 2 * (0 - e) <= r.qps.v + r.dur.v + 2 ]_vars

C19_Witness ==
    /\ pc = "done"
    /\ \E k \in 1..Len(log) :
          /\ log[k].phase = "steady"
          /\ log[k].conc = 3
          /\ log[k].dur.v > 0
          /\ log[k].qps # Num(Fmt2(log[k].conc * 10000000, log[k].dur.v))

CellsWithPerRequest(r) ==
    << <<"db", r.db>>, <<"mode", r.mode>>, <<"phase", r.phase>>,
       <<"conc", r.conc>>, <<"idx", r.idx>>, <<"repeat", r.repeat>>,
       <<"comp", r.comp>>, <<"dur", r.dur>>,
       <<"per_request", IF r.dur.nan THEN NaN ELSE Num(r.dur.v \div r.conc)>>,
       <<"qps", r.qps>>, <<"avg_cpu", r.avg_cpu>>, <<"avg_mem", r.avg_mem>>,
       <<"disk_mb", r.disk_mb>>, <<"stmt", [oneline |-> r.stmt]>>,
       <<"res", [json |-> r.res]>> >>

\* _log_csv: the list `row` handed to writer.writerow, each cell with the
\* keyword argument it is made of
Cells(r) ==
    << <<"db", r.db>>, <<"mode", r.mode>>, <<"phase", r.phase>>,
       <<"conc", r.conc>>, <<"idx", r.idx>>, <<"repeat", r.repeat>>,
       <<"comp", r.comp>>, <<"dur", r.dur>>, <<"qps", r.qps>>,
       <<"avg_cpu", r.avg_cpu>>, <<"avg_mem", r.avg_mem>>,
       <<"disk_mb", r.disk_mb>>, <<"stmt", [oneline |-> r.stmt]>>,
       <<"res", [json |-> r.res]>> >>

\* the lines of the output file: the header rows, then one line per row
CsvLines == header \o [k \in 1..Len(log) |-> Cells(log[k])]

\* the header name under which each argument of _log_csv is meant to stand
ColumnOf(arg) ==
    CASE arg = "db" -> "db"
      [] arg = "mode" -> "mode"
      [] arg = "phase" -> "phase"
      [] arg = "conc" -> "concurrency"
      [] arg = "idx" -> "query_no"
      [] arg = "repeat" -> "repeat"
      [] arg = "comp" -> "complexity"
      [] arg = "dur" -> "duration_ms"
      [] arg = "qps" -> "qps"
      [] arg = "avg_cpu" -> "avg_cpu"
      [] arg = "avg_mem" -> "avg_mem"
      [] arg = "disk_mb" -> "disk_mb"
      [] arg = "stmt" -> "statement"
      [] arg = "res" -> "result"
      [] OTHER -> "none"

ColumnsOfLine(line) == [i \in 1..Len(line) |-> ColumnOf(line[i][1])]

\* C21 as stated: every record has the 15 columns backend, variant, phase,
\* concurrency, statement_index, repetition, complexity, duration_ms,
\* per_request_ms, qps, avg_cpu_pct, avg_mem_mb, disk_mb, statement_text,
\* result_json, and so has the header row.
C21_FifteenColumnsWithPerRequest ==
    LET lines == CsvLines
    IN  \A n \in 1..Len(lines) : Len(lines[n]) = 15

\* C21: the file starts with exactly one header row, written before the first
\* record; it names the 14 columns db, mode, phase, concurrency, query_no,
\* repeat, complexity, duration_ms, qps, avg_cpu, avg_mem, disk_mb,
\* statement, result; every record, warm-up or steady, has exactly these
\* columns in this order, and none holds a time per request.
C21_FourteenColumnsMatchHeader ==
    [][ /\ header' # header =>
              /\ header = <<>> /\ log = <<>>
              /\ header' = << CSV_HEADER >>
              /\ Len(CSV_HEADER) = 14
        /\ log' # log =>
              LET r    == log'[Len(log')]
                  line == Cells(r)
              IN  /\ log' = Append(log, r)
                  /\ header = << CSV_HEADER >>
                  /\ ColumnsOfLine(line) = header[1]
                  /\ r.phase \in {"warmup", "steady"}
                  /\ line[3][2] = r.phase
                  /\ line[8][2] = r.dur
                  /\ line[9][2] = r.qps
      ]_vars

C21_Witness ==
    /\ Len(header) = 1
    /\ \E j, k \in 1..Len(log) : log[j].phase = "warmup" /\ log[k].phase = "steady"


(***************************************************************************)
(* A run over a catalog that holds a read and a write                      *)
(***************************************************************************)
\* the first "simple" and the first "create" statement of the catalog
ReadAndWrite == << Flatten(Tiers)[1], Flatten(Tiers)[13] >>

InitWrites ==
    /\ \E v \in Variants : db = v[1] /\ mode = v[2]
    /\ WARMUP_RUNS = 1
    /\ REPETITIONS \in 1..MaxReps
    /\ queries = ReadAndWrite
    /\ pc = "start"
    /\ Container
    /\ Start

SpecWrites == InitWrites /\ [][Next]_vars

\* C22: the outcome of a read holds the row count and the first row only, and
\* the outcome of a write holds only affected-row counters and never the
\* row-count / first-row fields, on both executors; stated of every finished
\* execution and of every record.
C22_WritesYieldCountersOnly ==
    /\ \A i \in 1..Len(futs) :
         futs[i].state = "ok" =>
            IF IsRead(q_iter[futs[i].query].comp)
            THEN DOMAIN futs[i].result = {"rows", "first"}
            ELSE DOMAIN futs[i].result \cap {"rows", "first"} = {}
    /\ \A k \in 1..Len(log) :
         log[k].phase = "steady" =>
            IF IsRead(log[k].comp)
            THEN DOMAIN log[k].res = {"rows", "first"}
            ELSE DOMAIN log[k].res \cap {"rows", "first"} = {}


\* C23: with WARMUP_RUNS = 0 there is no warm-up at all: the orchestrator is
\* never inside a warm-up burst, no warm-up batch is started (so no warm-up
\* execution is submitted), no pause is taken, no warm-up row is written; and
\* every pair still gets its steady repetitions: a run that ends normally has
\* started and logged REPETITIONS steady batches for every pair.
C23_ZeroWarmupsDisablesWarmup ==
    WARMUP_RUNS = 0 =>
       /\ pc \notin {"warm_head", "warm_submit", "warm_results", "warm_exit",
                     "warm_sleep", "warm_log"}
       /\ \A k \in 1..Len(started) : started[k].key[3] = PhaseNo("steady")
       /\ pauses = <<>>
       /\ \A k \in 1..Len(log) : log[k].phase = "steady"
       /\ pc = "done" =>
             /\ Len(log) = Len(CONCURRENCY_LEVELS) * Len(q_iter) * REPETITIONS
             /\ \A l \in 1..Len(CONCURRENCY_LEVELS), q \in 1..Len(q_iter) :
                   /\ Cardinality(PairRows(l, q, "steady")) = REPETITIONS
                   /\ \A r \in 1..REPETITIONS :
                         << l, q, PhaseNo("steady"), r >> \in StartedKeys

C23_Witness ==
    /\ WARMUP_RUNS = 0
    /\ REPETITIONS = MaxReps
    /\ pc = "done"
    /\ Len(log) = Len(CONCURRENCY_LEVELS) * Len(q_iter) * MaxReps


SteadyRows == {k \in 1..Len(log) : log[k].phase = "steady"}

\* C24: the sampler runs only at the two sampling points of a steady
\* repetition, never inside a warm-up; passing a sampling point takes one new
\* snapshot of the counters as they are then; and when a repetition is logged
\* the last two snapshots are its own before and after snapshot, the ones its
\* row is computed from, every repetition logged earlier having two of its own.
C24_TwoFreshSnapshotsPerRepetition ==
    [][ /\ snaps' # snaps =>
              /\ pc \in {"steady_before", "steady_after"}
              /\ Len(snaps') = Len(snaps) + 1
              /\ SubSeq(snaps', 1, Len(snaps)) = snaps
              /\ snaps'[Len(snaps')].key = CurKey("steady")
              /\ snaps'[Len(snaps')].ok => snaps'[Len(snaps')].stats = ReadCgroupStats
        /\ pc \in {"warm_head", "warm_submit", "warm_results", "warm_exit",
                   "warm_sleep", "warm_log"} => snaps' = snaps
        /\ pc = "steady_before" /\ pc' = "steady_start" =>
              /\ Len(snaps') = Len(snaps) + 1
              /\ snaps'[Len(snaps')].kind = "before"
              /\ start_stats' = snaps'[Len(snaps')].stats
        /\ pc = "steady_after" /\ pc' = "steady_log" =>
              /\ Len(snaps') = Len(snaps) + 1
              /\ snaps'[Len(snaps')].kind = "after"
              /\ end_stats' = snaps'[Len(snaps')].stats
        /\ pc = "steady_log" /\ log' # log =>
              /\ Len(snaps) = 2 * Cardinality(SteadyRows) + 2
              /\ snaps[Len(snaps) - 1].kind = "before"
              /\ snaps[Len(snaps)].kind = "after"
              /\ snaps[Len(snaps) - 1].key = CurKey("steady")
              /\ snaps[Len(snaps)].key = CurKey("steady")
              /\ start_stats = snaps[Len(snaps) - 1].stats
              /\ end_stats = snaps[Len(snaps)].stats
      ]_vars

C24_Witness ==
    /\ pc = "steady_log"
    /\ rep = 2
    /\ WARMUP_RUNS > 0
    /\ Len(snaps) = 2 * Cardinality(SteadyRows) + 2
    /\ start_stats # end_stats


\* C25: a warm-up burst that has been joined is followed by a pause of
\* WARMUP_SLEEP during which the clock advances and nothing runs; and with
\* warm-up enabled, whenever the sampler is called for a pair, the last pause
\* taken is the one after that pair's last warm-up burst, and the pair's first
\* before-snapshot is taken with no batch started since that pause.
C25_PauseBeforeFirstSteadySample ==
    [][ /\ pc = "warm_sleep" /\ pc' # pc =>
              /\ InFlight = 0
              /\ now' = now + WARMUP_SLEEP_MS * 1000
              /\ pauses' = Append(pauses, pauses'[Len(pauses')])
              /\ pauses'[Len(pauses')].key = CurKey("warmup")
        /\ pauses' # pauses => pc = "warm_sleep"
        /\ snaps' # snaps /\ WARMUP_RUNS > 0 =>
              /\ pauses # <<>>
              /\ pauses[Len(pauses)].key =
                    << ci, idx, PhaseNo("warmup"), WARMUP_RUNS >>
              /\ pauses[Len(pauses)].inflight = 0
              /\ pauses[Len(pauses)].ms = WARMUP_SLEEP_MS
              /\ pc = "steady_before" /\ rep = 1 =>
                    pauses[Len(pauses)].batches = Len(started)
      ]_vars

C25_Witness ==
    /\ WARMUP_RUNS = MaxWarmups
    /\ ci = Len(CONCURRENCY_LEVELS)
    /\ idx = Len(q_iter)
    /\ rep = 1
    /\ pc = "steady_start"
    /\ snaps # <<>>
    /\ snaps[Len(snaps)].kind = "before"
    /\ Len(pauses) = Len(CONCURRENCY_LEVELS) * Len(q_iter) * MaxWarmups


(***************************************************************************)
(* Progress: the main thread and the worker threads are scheduled by the   *)
(* operating system; whether a statement returns is up to the database     *)
(***************************************************************************)
\* the steps of the main thread
Orchestrator ==
    \/ Setup \/ PairHead \/ WarmHead \/ Submit \/ WarmResults \/ WarmExit
    \/ WarmSleep \/ WarmLog \/ SteadyHead \/ SteadyBefore \/ SteadyStart
    \/ SteadyFirst \/ SteadyExit \/ SteadyAfter \/ SteadyLog \/ QueryNext

\* an idle worker thread picks up queued work
Worker == \E i \in 1..Len(futs) : TaskStart(i)

\* a statement that is being executed returns or raises
Finish == \E i \in 1..Len(futs) : TaskDone(i) \/ TaskFail(i)

InitLive ==
    /\ \E v \in { << "postgres", "normal" >>, << "neo4j", "optimized" >> } :
         db = v[1] /\ mode = v[2]
    /\ WARMUP_RUNS \in {0, 1}
    /\ REPETITIONS = 1
    /\ queries = Catalog(NumQueries)
    /\ pc = "start"
    /\ Container
    /\ Start

SpecLive == InitLive /\ [][Next]_vars /\ WF_vars(Orchestrator) /\ WF_vars(Worker)

Terminated == pc \in {"done", "failed"}

\* C26: if every statement execution terminates, the run terminates; and
\* there is no timeout or cancellation: while an execution of a batch has
\* not returned, the orchestrator does not pass the join of that batch, no
\* further batch is started, no record is written and the run does not end.
C26_TerminatesUnlessAnExecutionHangs ==
    /\ WF_vars(Finish) => <>Terminated
    /\ [][ InFlight > 0 =>
              /\ Len(started') = Len(started)
              /\ log' = log
              /\ pc \in {"warm_exit", "steady_exit"} => pc' = pc
              /\ ~Terminated'
         ]_vars

\* a run that can hang: an execution stays in flight at the join
C26_Witness ==
    /\ pc \in {"warm_exit", "steady_exit"}
    /\ InFlight > 0
    /\ ci = Len(CONCURRENCY_LEVELS)


(***************************************************************************)
(* A run over a catalog of reads with a write between them                 *)
(***************************************************************************)
\* the 30-day statement, the first "create" and the first "simple" statement
ReadsAroundWrite == << Flatten(Tiers)[9], Flatten(Tiers)[13], Flatten(Tiers)[1] >>

InitReads ==
    /\ \E v \in { << "postgres", "normal" >>, << "neo4j", "normal" >> } :
         db = v[1] /\ mode = v[2]
    /\ WARMUP_RUNS \in {0, 1}
    /\ REPETITIONS = 2
    /\ queries = ReadsAroundWrite
    /\ pc = "start"
    /\ Container
    /\ Start

SpecReads == InitReads /\ [][Next]_vars

\* the row counts of the pair being run: those of the finished executions of
\* the current batch and those logged for the pair's earlier repetitions
PairRowCounts ==
    {futs[i].result.rows : i \in {j \in 1..Len(futs) : futs[j].state = "ok"}}
    \cup {log[k].res.rows : k \in PairRows(ci, idx, "steady")}

\* C27 as stated: while a pair of a read statement is run, no write touching
\* the data, every execution of every repetition returns the same row count.
C27_ReadsAgreeWithinPair ==
    pc \notin {"start", "done", "failed"} /\ IsRead(comp) =>
       Cardinality(PairRowCounts) <= 1

\* C27: the same for every read statement whose result does not depend on
\* the current date or time, whatever was written before the pair began.
C27_TimeIndependentReadsAgreeWithinPair ==
    pc \notin {"start", "done", "failed"} /\ IsRead(comp) /\ ~Windowed(q_iter[idx]) =>
       Cardinality(PairRowCounts) <= 1

C27_Witness ==
    /\ pc = "steady_exit"
    /\ AllDone
    /\ ci = Len(CONCURRENCY_LEVELS)
    /\ rep = REPETITIONS
    /\ comp = "simple"
    /\ dataset.version > 0
    /\ Cardinality(PairRowCounts) = 1
    /\ PairRows(ci, idx, "steady") # {}
    /\ \A i \in 1..Len(futs) : futs[i].state = "ok"


(***************************************************************************)
(* A run whose disk measurement meets every answer docker can give         *)
(***************************************************************************)
InitDisk ==
    /\ db = "postgres" /\ mode = "normal"
    /\ WARMUP_RUNS = 1
    /\ REPETITIONS = 1
    /\ queries = Catalog(1)
    /\ pc = "start"
    /\ cpu_usec = 0
    /\ mem_now = MemNowMiB * 1024 * 1024
    /\ dataset = [rows |-> DatasetRows, version |-> 0]
    /\ docker \in DockerOutcomes
    /\ cgroup_visible = TRUE
    /\ Start

SpecDisk == InitDisk /\ [][Next]_vars

\* the bytes of what could be read: the container's size if its query
\* answered, and the size of every volume mount whose query answered
ReadableBytes(dk) ==
    LET vols == IF dk.mounts.ok
                THEN {i \in 1..Len(dk.mounts.list) :
                        dk.mounts.list[i].type = "volume" /\ dk.mounts.list[i].ok}
                ELSE {}
        sizes == [i \in vols |-> dk.mounts.list[i].bytes]
        sum2  == IF vols = {} THEN 0
                 ELSE IF vols = {1} THEN sizes[1]
                 ELSE IF vols = {2} THEN sizes[2]
                 ELSE sizes[1] + sizes[2]
    IN  (IF dk.root.ok THEN dk.root.bytes ELSE 0) + sum2

\* C28: whatever the docker queries answer, the disk measurement returns and
\* the row is written: every row's disk_mb column is the total of the parts
\* that could be read, an unreadable part counting 0 bytes, in MB with two
\* decimals, and NaN when that total is 0 (or below); a run never fails in
\* the logger, and no failure of the run is a failure of the disk measurement.
C28_DiskFailureNeverAborts ==
    /\ \A k \in 1..Len(log) :
         log[k].disk_mb =
            IF ReadableBytes(docker) > 0
            THEN Num(Fmt2(ReadableBytes(docker) * 100, 1024 * 1024))
            ELSE NaN
    /\ pc = "failed" =>
          /\ failedAt \notin {"warm_log", "steady_log"}
          /\ error \in {"SetupError", "QueryError", "PoolError", "ResourceUnavailable"}
    /\ pc = "done" =>
          Len(log) = Len(CONCURRENCY_LEVELS) * (WARMUP_RUNS + REPETITIONS)

\* both docker queries fail and the run still ends with all its rows, the
\* disk_mb column being NaN
C28_Witness ==
    /\ ~docker.root.ok
    /\ ~docker.mounts.ok
    /\ pc = "done"
    /\ Len(log) = Len(CONCURRENCY_LEVELS) * 2
    /\ \A k \in 1..Len(log) : log[k].disk_mb = NaN


(***************************************************************************)
(* _read_cgroup_stats, file by file: two calls, the host's view of the     *)
(* container's cgroup directory coming and going meanwhile                 *)
(***************************************************************************)
InitSampler ==
    /\ db \in {"postgres", "neo4j"}
    /\ mode = "normal"
    /\ dataset = [rows |-> DatasetRows, version |-> 0]
    /\ docker = HealthyDocker
    /\ cgroup_visible \in BOOLEAN
    /\ WARMUP_RUNS = 0
    /\ REPETITIONS = 0
    /\ queries = Catalog(1)
    /\ pc = "probe"
    /\ cpu_usec \in {k * CpuPerTask : k \in 0..CpuSteps}
    /\ mem_now \in MemValues
    /\ Start

\* what the sampler does not touch
outside == << config, header, pauses, dataset, diskv, drv, loopv, futs, max_workers, exc,
              poolv, envv, t0, first_result, duration_ms, d, log, started >>

\* the directory CG_PATH / cid appears on or vanishes from the host
VisibilityChanges ==
    /\ pc \in {"probe", "read_cpu", "read_mem"}
    /\ cgroup_visible' = ~cgroup_visible
    /\ UNCHANGED << outside, pc, use_exec, reads, snaps, start_stats, end_stats, failv >>

\* cdir = CG_PATH / cid; use_exec = not cdir.exists()
Probe ==
    /\ pc = "probe"
    /\ use_exec' = ~cgroup_visible
    /\ pc' = "read_cpu"
    /\ UNCHANGED << outside, cgroup_visible, reads, snaps, start_stats, end_stats, failv >>

\* _read_file(rel_path): docker exec cat, which can fail, or read_text on the
\* host, which fails when the directory is gone
ReadFile(rel_path, via, ok) ==
    /\ via = "host" => ok = cgroup_visible
    /\ reads' = Append(reads, [call |-> Len(snaps) + 1, file |-> rel_path,
                               via |-> via, ok |-> ok])
    /\ ok => UNCHANGED failv
    /\ ~ok => Raise(IF via = "exec" THEN "CalledProcessError" ELSE "FileNotFoundError",
                    rel_path)

\* every read looks again whether the directory is there
ReadMemRechecks ==
    /\ pc = "read_mem"
    /\ \E ok \in BOOLEAN :
         /\ ReadFile("memory.current", IF cgroup_visible THEN "host" ELSE "exec", ok)
         /\ IF ok
              THEN /\ snaps' = Append(snaps, [call |-> Len(snaps) + 1,
                                              via |-> IF cgroup_visible THEN "host" ELSE "exec",
                                              stats |-> ReadCgroupStats])
                   /\ IF Len(snaps) = 0
                        THEN start_stats' = ReadCgroupStats /\ end_stats' = end_stats
                        ELSE end_stats' = ReadCgroupStats /\ start_stats' = start_stats
                   /\ pc' = IF Len(snaps) = 0 THEN "probe" ELSE "sampled"
              ELSE UNCHANGED << snaps, start_stats, end_stats >>
    /\ UNCHANGED << outside, cgroup_visible, use_exec >>

\* for ln in _read_file("cpu.stat").splitlines(): ...
ReadCpu ==
    /\ pc = "read_cpu"
    /\ \E ok \in BOOLEAN :
         /\ ReadFile("cpu.stat", IF use_exec THEN "exec" ELSE "host", ok)
         /\ ok => pc' = "read_mem"
    /\ UNCHANGED << outside, cgroup_visible, use_exec, snaps, start_stats, end_stats >>

\* mem_now = int(_read_file("memory.current").strip()); return {...}
ReadMem ==
    /\ pc = "read_mem"
    /\ \E ok \in BOOLEAN :
         /\ ReadFile("memory.current", IF use_exec THEN "exec" ELSE "host", ok)
         /\ IF ok
              THEN /\ snaps' = Append(snaps, [call |-> Len(snaps) + 1,
                                              via |-> IF use_exec THEN "exec" ELSE "host",
                                              stats |-> ReadCgroupStats])
                   /\ IF Len(snaps) = 0
                        THEN start_stats' = ReadCgroupStats /\ end_stats' = end_stats
                        ELSE end_stats' = ReadCgroupStats /\ start_stats' = start_stats
                   /\ pc' = IF Len(snaps) = 0 THEN "probe" ELSE "sampled"
              ELSE UNCHANGED << snaps, start_stats, end_stats >>
    /\ UNCHANGED << outside, cgroup_visible, use_exec >>

NextSampler ==
    \/ VisibilityChanges
    \/ Probe
    \/ ReadCpu
    \/ ReadMem

SpecSampler == InitSampler /\ [][NextSampler]_vars

\* C29: a call of the sampler chooses its strategy when it begins, the host's
\* files if the container's cgroup directory is visible then and exec inside
\* the container otherwise; every read of the call goes that way, whatever
\* becomes of the directory meanwhile; and the snapshot returned has the
\* fields cpu_usec and mem_now whichever strategy produced it.
C29_OneStrategyPerSnapshotSameFields ==
    [][ /\ pc = "probe" /\ pc' # pc => use_exec' = ~cgroup_visible
        /\ pc # "probe" => use_exec' = use_exec
        /\ reads' # reads =>
              /\ Len(reads') = Len(reads) + 1
              /\ reads'[Len(reads')].via = IF use_exec THEN "exec" ELSE "host"
              /\ \A i \in 1..Len(reads) :
                    reads[i].call = reads'[Len(reads')].call =>
                       reads[i].via = reads'[Len(reads')].via
        /\ snaps' # snaps =>
              /\ Len(snaps') = Len(snaps) + 1
              /\ DOMAIN snaps'[Len(snaps')].stats = {"cpu_usec", "mem_now"}
              /\ snaps'[Len(snaps')].via = IF use_exec THEN "exec" ELSE "host"
              /\ {reads'[i].file : i \in {j \in 1..Len(reads') :
                                            reads'[j].call = Len(snaps')}}
                    = {"cpu.stat", "memory.current"}
      ]_vars

\* one snapshot read on the host and one read through exec, the directory
\* having changed during a call
C29_Witness ==
    /\ pc = "sampled"
    /\ Len(snaps) = 2
    /\ snaps[1].via = "host"
    /\ snaps[2].via = "exec"
    /\ cgroup_visible
    /\ DOMAIN snaps[1].stats = DOMAIN snaps[2].stats


(***************************************************************************)
(* A run during which the container also spends CPU time outside the timed *)
(* batch: between the before-snapshot and the start of the timer, and      *)
(* between the stop of the timer and the after-snapshot                    *)
(***************************************************************************)
InitCpu ==
    /\ \E v \in { << "postgres", "normal" >>, << "neo4j", "normal" >> } :
         db = v[1] /\ mode = v[2]
    /\ WARMUP_RUNS = 1
    /\ REPETITIONS = 1
    /\ queries = Catalog(1)
    /\ pc = "start"
    /\ Container
    /\ Start

\* the database's background work, or the docker exec of the sampler itself,
\* runs in the container: usage_usec grows while the timer does not run
ContainerBusy ==
    /\ pc \in {"steady_start", "steady_after"}
    /\ cpu_usec < 2 * CpuSteps * CpuPerTask
    /\ cpu_usec' = cpu_usec + CpuPerTask
    /\ UNCHANGED << config, extv, pc, loopv, futs, max_workers, exc, poolv, now, mem_now,
                    measv, log, failv, hist >>

NextCpu == Next \/ ContainerBusy

SpecCpu == InitCpu /\ [][NextCpu]_vars

\* C30 as stated: the avg_cpu of a steady row is the CPU time used between
\* the repetition's two snapshots, over the duration times the core count of
\* the measured container, as a percentage.
C30_AvgCpuOverContainerCores ==
    [][ log' # log /\ log'[Len(log')].phase = "steady" =>
           log'[Len(log')].avg_cpu =
              Num(Fmt2((snaps[Len(snaps)].stats.cpu_usec.v
                          - snaps[Len(snaps) - 1].stats.cpu_usec.v) * 10000,
                       duration_ms * ContainerCpus)) ]_vars

\* C30: the avg_cpu of a steady row is (delta.cpu_usec / 1e6) / (duration in
\* seconds * CPU_CORES) * 100 written with two decimals, CPU_CORES being the
\* logical CPU count of the host the benchmark runs on; the value is not
\* cut off at 100.
C30_AvgCpuOverHostCores ==
    [][ log' # log /\ log'[Len(log')].phase = "steady" =>
           /\ Len(snaps) >= 2
           /\ log'[Len(log')].avg_cpu =
                 Num(Fmt2((snaps[Len(snaps)].stats.cpu_usec.v
                             - snaps[Len(snaps) - 1].stats.cpu_usec.v) * 10000,
                          duration_ms * CPU_CORES))
           /\ d'.cpu_usec.v * 100 >= 101 * duration_ms * CPU_CORES =>
                 log'[Len(log')].avg_cpu.v > 100 * 100 ]_vars

\* a steady row with an avg_cpu above 100.00
C30_Witness ==
    /\ log # <<>>
    /\ log[Len(log)].phase = "steady"
    /\ ~log[Len(log)].avg_cpu.nan
    /\ log[Len(log)].avg_cpu.v > 100 * 100

(***************************************************************************)
(* Failures inside a steady batch                                          *)
(***************************************************************************)
\* C31: in a steady batch the failure of an execution other than the
\* first-submitted one is never raised to the orchestrator: with futs[0]
\* successful the batch is left, once joined, without an exception whatever
\* became of the others, the after-snapshot of the repetition is taken, and
\* when it is read the repetition gets its normal steady row, with the
\* measured duration and the outcome of futs[0], and the loop goes on.
C31_OtherFailuresNotRaised ==
    [][ /\ (pc = "steady_first" /\ pc' # pc /\ futs[1].state = "ok"
               => exc' = "none" /\ first_result' = futs[1].result
                  /\ pc' = "steady_exit")
        /\ (pc = "steady_exit" /\ pc' # pc /\ futs[1].state = "ok"
               => pc' = "steady_after" /\ error' = "none")
        /\ (pc = "steady_after" /\ pc' # pc
               => /\ Len(snaps') = Len(snaps) + 1
                  /\ snaps'[Len(snaps')].kind = "after"
                  /\ snaps'[Len(snaps')].key = CurKey("steady")
                  /\ snaps'[Len(snaps')].ok => pc' = "steady_log")
        /\ (pc = "steady_log" /\ pc' = "steady_head"
               => /\ futs[1].state = "ok"
                  /\ log' = Append(log, log'[Len(log')])
                  /\ log'[Len(log')].phase = "steady"
                  /\ log'[Len(log')].repeat = rep
                  /\ log'[Len(log')].res = futs[1].result
                  /\ ~log'[Len(log')].dur.nan /\ ~log'[Len(log')].qps.nan
                  /\ rep' = rep + 1)
        /\ (pc' = "failed" /\ pc # "failed" /\ failedAt' = "steady"
               => futs[1].state = "err") ]_vars

\* a repetition in which every execution but the first has failed has its
\* row, and the loop is at the next repetition
C31_Witness ==
    /\ pc = "steady_head"
    /\ Len(futs) > 1
    /\ futs[1].state = "ok"
    /\ \A i \in 2..Len(futs) : futs[i].state = "err" /\ futs[i].exception = "QueryError"
    /\ Len(log) > 0
    /\ log[Len(log)].phase = "steady"
    /\ RowKey(log[Len(log)]) = started[Len(started)].key
    /\ log[Len(log)].res = futs[1].result
    /\ rep <= REPETITIONS

\* C32: in a steady batch the failure of the first-submitted execution
\* leaves the batch only after all conc executions of the batch have
\* finished, the executor being joined first; then no after-snapshot is
\* taken and no row is written for that repetition.
C32_FirstFailureLeavesAfterJoin ==
    [][ /\ (pc = "steady_first" /\ pc' # pc /\ futs[1].state = "err"
               => pc' = "steady_exit" /\ exc' = futs[1].exception
                  /\ error' = "none")
        /\ (pc = "steady_exit" /\ exc # "none"
               => /\ RowsOf(CurKey("steady")) = {}
                  /\ \A k \in 1..Len(snaps) :
                        snaps[k].key = CurKey("steady") => snaps[k].kind = "before"
                  /\ pc' # pc =>
                        /\ AllDone /\ Len(futs) = conc
                        /\ pc' = "failed" /\ error' = exc /\ failedAt' = "steady"
                        /\ snaps' = snaps /\ log' = log)
        /\ (pc' = "failed" /\ pc # "failed" /\ failedAt' = "steady"
               => pc = "steady_exit" /\ InFlight = 0)
        /\ (pc = "failed" => FALSE) ]_vars

\* the first execution failed before the others had finished, and the
\* exception left the function with all of them finished
C32_Witness ==
    /\ pc = "failed" /\ failedAt = "steady"
    /\ Len(futs) > 2
    /\ futs[1].state = "err"
    /\ \E i \in 2..Len(futs) : futs[i].state = "ok"
    /\ \E i \in 2..Len(futs) : futs[i].state = "err"
    /\ RowsOf(CurKey("steady")) = {}
    /\ snaps[Len(snaps)].kind = "before"
    /\ snaps[Len(snaps)].key = CurKey("steady")

(***************************************************************************)
(* Failures inside a warm-up burst                                         *)
(***************************************************************************)
\* the pauses made after the burst of a key
PausesOf(key) == {k \in 1..Len(pauses) : pauses[k].key = key}

\* C33: the failure of any of the conc executions of a warm-up burst is not
\* suppressed: ft.result() re-raises it whichever execution it was, the
\* exception leaves the warm-up only after all conc executions of the burst
\* have finished, the pause is skipped, the burst gets no row, and no later
\* batch is started.
C33_WarmupFailurePropagatesAfterJoin ==
    [][ /\ (pc = "warm_results" /\ pc' # pc
               => /\ pc' = "warm_exit"
                  /\ (exc' = "none") = (\A i \in 1..Len(futs) : futs[i].state = "ok")
                  /\ exc' # "none" =>
                        \E i \in 1..Len(futs) :
                           futs[i].state = "err" /\ exc' = futs[i].exception)
        /\ (pc = "warm_exit" /\ exc # "none"
               => /\ RowsOf(CurKey("warmup")) = {}
                  /\ PausesOf(CurKey("warmup")) = {}
                  /\ pc' # pc =>
                        /\ AllDone /\ Len(futs) = conc
                        /\ pc' = "failed" /\ error' = exc /\ failedAt' = "warmup"
                        /\ pauses' = pauses /\ log' = log /\ started' = started
                        /\ now' = now)
        /\ (pc' = "failed" /\ pc # "failed" /\ failedAt' = "warmup"
               => pc = "warm_exit" /\ InFlight = 0)
        /\ (pc = "failed" => FALSE) ]_vars

\* the first-submitted execution of a burst succeeded and a later one failed;
\* its exception is pending at the end of the with-block, the burst joined
C33_Witness ==
    /\ pc = "warm_exit"
    /\ exc = "QueryError"
    /\ AllDone
    /\ Len(futs) > 2
    /\ futs[1].state = "ok"
    /\ futs[2].state = "ok"
    /\ futs[Len(futs)].state = "err"
    /\ wrep < WARMUP_RUNS
    /\ REPETITIONS > 0

(***************************************************************************)
(* What the two timers span                                                *)
(***************************************************************************)
\* the after-snapshots taken for a key
AfterSnapsOf(key) ==
    {k \in 1..Len(snaps) : snaps[k].key = key /\ snaps[k].kind = "after"}

\* C34: the duration of a warm-up row spans the whole warm-up call with the
\* pause after the burst: the timer started before the burst is stopped only
\* when the pause has elapsed, so the duration is at least the pause, and
\* that duration is what the row carries; the timer of a steady repetition
\* is stopped when the batch is joined, before the after-snapshot is taken,
\* and the snapshot leaves the duration as it is.
C34_WarmupTimerSpansPause ==
    [][ /\ (pc = "warm_sleep" /\ pc' # pc
               => /\ pc' = "warm_log"
                  /\ now' = now + WARMUP_SLEEP_MS * 1000
                  /\ duration_ms' = now' - t0
                  /\ duration_ms' = (now - t0) + WARMUP_SLEEP_MS * 1000
                  /\ Len(pauses') = Len(pauses) + 1)
        /\ (pc = "warm_log" /\ pc' # pc
               => /\ PausesOf(CurKey("warmup")) # {}
                  /\ log'[Len(log')].phase = "warmup"
                  /\ log'[Len(log')].dur = DurField(duration_ms)
                  /\ log'[Len(log')].dur.v >= WARMUP_SLEEP_MS * 100)
        /\ (pc = "steady_exit" /\ pc' = "steady_after"
               => /\ AllDone
                  /\ duration_ms' = now - t0
                  /\ AfterSnapsOf(CurKey("steady")) = {}
                  /\ snaps' = snaps)
        /\ (pc = "steady_after" /\ pc' # pc
               => duration_ms' = duration_ms /\ Len(snaps') = Len(snaps) + 1)
        /\ (pc = "steady_log" /\ pc' = "steady_head"
               => /\ AfterSnapsOf(CurKey("steady")) # {}
                  /\ log'[Len(log')].dur = DurField(duration_ms)) ]_vars

\* a statement whose warm-up row and steady row at one level differ by the
\* pause exactly
C34_Witness ==
    /\ pc = "steady_head"
    /\ \E j, k \in 1..Len(log) :
          /\ j < k
          /\ log[j].phase = "warmup" /\ log[k].phase = "steady"
          /\ log[j].conc = log[k].conc /\ log[j].idx = log[k].idx
          /\ log[k].conc > 1
          /\ log[k].dur = DurField(log[k].conc * TaskTime)
          /\ log[j].dur = DurField(log[j].conc * TaskTime + WARMUP_SLEEP_MS * 1000)

(***************************************************************************)
(* The four catalogs and the tier mapping of the post-processing           *)
(***************************************************************************)
\* the tiers of each catalog in dict order, with the number of statements
\* each holds; PG_OPT_QUERIES = PG_NORMAL_QUERIES
PG_NORMAL_QUERIES ==
    << <<"simple", 3>>, <<"medium", 3>>, <<"complex", 3>>, <<"very_complex", 3>>,
       <<"create", 4>>, <<"update", 4>>, <<"delete", 4>> >>

PG_OPT_QUERIES == PG_NORMAL_QUERIES

NEO_NORMAL_QUERIES ==
    << <<"simple", 3>>, <<"medium", 3>>, <<"complex", 3>>, <<"very_complex", 3>>,
       <<"create", 4>>, <<"update", 4>>, <<"delete", 4>> >>

NEO_OPT_QUERIES ==
    << <<"simple", 3>>, <<"medium", 3>>, <<"complex", 3>>, <<"very_complex", 3>>,
       <<"create", 4>>, <<"update", 4>>, <<"delete", 4>> >>

\* run_pg_normal, run_pg_optimized, run_neo_normal, run_neo_optimized: the
\* catalog each variant hands to its benchmark function
QueriesOf(dbname, m) ==
    CASE dbname = "postgres" /\ m = "normal"    -> PG_NORMAL_QUERIES
      [] dbname = "postgres" /\ m = "optimized" -> PG_OPT_QUERIES
      [] dbname = "neo4j"    /\ m = "normal"    -> NEO_NORMAL_QUERIES
      [] dbname = "neo4j"    /\ m = "optimized" -> NEO_OPT_QUERIES

\* every tier is taken to hold three statements
MapComplexityThrees(q) ==
    IF 1 <= q /\ q <= 3 THEN "easy"
    ELSE IF 4 <= q /\ q <= 6 THEN "medium"
    ELSE IF 7 <= q /\ q <= 9 THEN "complex"
    ELSE IF 10 <= q /\ q <= 12 THEN "very_complex"
    ELSE IF 13 <= q /\ q <= 15 THEN "create"
    ELSE IF 16 <= q /\ q <= 18 THEN "update"
    ELSE "delete"

\* compute_stats.map_complexity
MapComplexity(q) ==
    IF 1 <= q /\ q <= 3 THEN "easy"
    ELSE IF 4 <= q /\ q <= 6 THEN "medium"
    ELSE IF 7 <= q /\ q <= 9 THEN "complex"
    ELSE IF 10 <= q /\ q <= 12 THEN "very_complex"
    ELSE IF 13 <= q /\ q <= 16 THEN "create"
    ELSE IF 17 <= q /\ q <= 20 THEN "update"
    ELSE "delete"

\* COMPLEXITY_ORDER names the first tier "easy", Complexity.SIMPLE.value is
\* "simple"
TierLabel(c) == IF c = "simple" THEN "easy" ELSE c

\* a run of one variant over its whole catalog, --warmups 1 --repetitions 1
InitCatalog ==
    /\ \E v \in Variants :
         db = v[1] /\ mode = v[2] /\ queries = Flatten(QueriesOf(v[1], v[2]))
    /\ WARMUP_RUNS = 1
    /\ REPETITIONS = 1
    /\ pc = "start"
    /\ Container
    /\ Start

\* the steps of such a run. Of the executions of a batch only the
\* first-submitted one is let fail here: a failure of another one either ends
\* the run as well (warm-up) or leaves the rows as they are (steady).
NextCatalog ==
    \/ Orchestrator
    \/ Worker
    \/ \E i \in 1..Len(futs) : TaskDone(i)
    \/ Len(futs) > 0 /\ TaskFail(1)

SpecCatalog == InitCatalog /\ [][NextCatalog]_vars

\* C35: for every row the benchmark writes, from any of the four catalogs,
\* map_complexity of the row's query number is the tier in the row's
\* complexity column, with "easy" standing for "simple"; the query numbers
\* run from 1 to 24 in catalog order, the tiers holding 3, 3, 3, 3, 4, 4 and
\* 4 statements.
C35_MapComplexityMatchesTier ==
    /\ Len(q_iter) = 24
    /\ \A k \in 1..Len(log) :
          /\ log[k].idx \in 1..24
          /\ log[k].comp = q_iter[log[k].idx].comp
          /\ MapComplexity(log[k].idx) = TierLabel(log[k].comp)

\* a finished run: both phases of the statements at the tier boundaries, the
\* 16th (last create) and the 17th (first update), and of the 24th are logged
C35_Witness ==
    /\ pc = "done"
    /\ \E i, j, k \in 1..Len(log) :
          /\ log[i].idx = 16 /\ log[i].comp = "create" /\ log[i].phase = "steady"
          /\ log[j].idx = 17 /\ log[j].comp = "update" /\ log[j].phase = "warmup"
          /\ log[k].idx = 24 /\ log[k].comp = "delete"

(***************************************************************************)
(* main.py: main and run_once drive the four variants                      *)
(***************************************************************************)
MAX_ROUNDS == 5

USER_STEPS == << 1000, 10000, 100000 >>

\* the variants in the order run_once handles them
VariantOrder == << "pg_normal", "pg_opt", "neo_normal", "neo_opt" >>

Op(o, v) == [op |-> o, variant |-> v]

\* how an operation is named where its exception is pending
Name(s) == s.op \o ":" \o s.variant

\* the operations one variant goes through in the try-block
VariantSteps(v) ==
    << Op("build", v), Op("start", v), Op("schema", v), Op("insert", v),
       Op("bench", v), Op("stop", v), Op("delete", v) >>

\* all four images are built and all four containers started ahead of the
\* first insert
BodyStepsStartAllFirst ==
    << Op("generate", "none"), Op("export", "none") >>
    \o [k \in 1..8 |-> Op(IF k % 2 = 1 THEN "build" ELSE "start",
                          VariantOrder[(k + 1) \div 2])]
    \o [k \in 1..20 |-> VariantSteps(VariantOrder[(k + 4) \div 5])[3 + ((k - 1) % 5)]]

\* the try-block of run_once: data generation, export, then the variants
BodySteps ==
    << Op("generate", "none"), Op("export", "none") >>
    \o VariantSteps(VariantOrder[1]) \o VariantSteps(VariantOrder[2])
    \o VariantSteps(VariantOrder[3]) \o VariantSteps(VariantOrder[4])

\* the finally-block of run_once
CleanupSteps ==
    [k \in 1..8 |-> Op(IF k % 2 = 1 THEN "stop" ELSE "delete",
                       VariantOrder[(k + 1) \div 2])]

\* only the stop functions catch their exceptions
CatchesOnlyInStop(s) == s.op = "stop"

\* whether an operation catches the exception of its own failure: the stop_*
\* and delete_* functions and apply_*_sql_structure do (except Exception);
\* the subprocess.run(..., check=True) calls, the build_* and start_*
\* functions and apply_*_cypher_structure raise
Catches(s) ==
    \/ s.op \in {"stop", "delete"}
    \/ s.op = "schema" /\ s.variant \in {"pg_normal", "pg_opt"}

\* main.py is started
InitMain ==
    /\ db = "postgres" /\ mode = "normal"
    /\ WARMUP_RUNS = 0 /\ REPETITIONS = 0
    /\ queries = Catalog(1)
    /\ pc = "main"
    /\ Container
    /\ Entry
    /\ SchemaIdle
    /\ CidIdle
    /\ mpc = "loop"
    /\ rnd = 1 /\ ui = 1 /\ step = 1
    /\ raised = "none"
    /\ invoked = <<>>
    /\ last_caught = 0
    /\ runs = <<>>
    /\ analyses = 0

\* what main.py itself does not touch
benchv == << config, header, pauses, dataset, diskv, samplerv, schemav, cidv,
             pc, loopv, futs, max_workers, exc, poolv, envv, measv, log, failv,
             hist >>

\* for rnd in range(1, MAX_ROUNDS + 1): for n_users in USER_STEPS:
\* run_once(n_users, rnd)
RunOnce ==
    /\ mpc = "loop"
    /\ rnd <= MAX_ROUNDS
    /\ runs' = Append(runs, << rnd, USER_STEPS[ui] >>)
    /\ mpc' = "body"
    /\ step' = 1
    /\ invoked' = <<>>
    /\ last_caught' = 0
    /\ raised' = "none"
    /\ UNCHANGED << benchv, rnd, ui, analyses >>

\* a failing operation is recorded as invoked, and as caught when it catches
Invoke(s, part, ok) ==
    /\ invoked' = Append(invoked, [op |-> s.op, variant |-> s.variant, part |-> part])
    /\ last_caught' = IF ~ok /\ Catches(s) THEN Len(invoked) + 1 ELSE last_caught

\* the next statement of the try-block; an exception it raises goes to the
\* finally-block
Body ==
    /\ mpc = "body"
    /\ IF step <= Len(BodySteps)
         THEN \E ok \in BOOLEAN :
                /\ Invoke(BodySteps[step], "body", ok)
                /\ IF ok \/ Catches(BodySteps[step])
                     THEN /\ step' = step + 1
                          /\ UNCHANGED << mpc, raised >>
                     ELSE /\ raised' = Name(BodySteps[step])
                          /\ mpc' = "finally"
                          /\ step' = 1
         ELSE /\ mpc' = "finally"
              /\ step' = 1
              /\ UNCHANGED << raised, invoked, last_caught >>
    /\ UNCHANGED << benchv, rnd, ui, runs, analyses >>

\* the next statement of the finally-block; an exception it raised would
\* leave run_once in place of the pending one
Finally ==
    /\ mpc = "finally"
    /\ step <= Len(CleanupSteps)
    /\ \E ok \in BOOLEAN :
         /\ Invoke(CleanupSteps[step], "finally", ok)
         /\ IF ok \/ Catches(CleanupSteps[step])
              THEN /\ step' = step + 1
                   /\ UNCHANGED << mpc, raised >>
              ELSE /\ raised' = Name(CleanupSteps[step])
                   /\ mpc' = "failed"
                   /\ step' = step
    /\ UNCHANGED << benchv, rnd, ui, runs, analyses >>

\* a failed run_once is followed by the next one
ReturnGoesOn ==
    /\ mpc = "finally"
    /\ step > Len(CleanupSteps)
    /\ mpc' = "loop"
    /\ IF ui < Len(USER_STEPS)
         THEN ui' = ui + 1 /\ rnd' = rnd
         ELSE ui' = 1 /\ rnd' = rnd + 1
    /\ UNCHANGED << benchv, step, raised, invoked, last_caught, runs, analyses >>

\* end of the finally-block: the pending exception leaves run_once and main,
\* which catch nothing; else run_once returns and the loops go on
Return ==
    /\ mpc = "finally"
    /\ step > Len(CleanupSteps)
    /\ IF raised # "none"
         THEN /\ mpc' = "failed"
              /\ UNCHANGED << rnd, ui >>
         ELSE /\ mpc' = "loop"
              /\ IF ui < Len(USER_STEPS)
                   THEN ui' = ui + 1 /\ rnd' = rnd
                   ELSE ui' = 1 /\ rnd' = rnd + 1
    /\ UNCHANGED << benchv, step, raised, invoked, last_caught, runs, analyses >>

\* after the loops: subprocess.run([..., ANALYSE], check=True)
Analyse ==
    /\ mpc = "loop"
    /\ rnd > MAX_ROUNDS
    /\ analyses' = analyses + 1
    /\ \E ok \in BOOLEAN :
         IF ok THEN mpc' = "done" /\ raised' = raised
               ELSE mpc' = "failed" /\ raised' = Name(Op("analyse", "none"))
    /\ UNCHANGED << benchv, rnd, ui, step, invoked, last_caught, runs >>

NextMain == RunOnce \/ Body \/ Finally \/ Return \/ Analyse

SpecMain == InitMain /\ [][NextMain]_vars

\* the operations invoked by the finally-block of the running run_once
CleanupInvoked == SelectSeq(invoked, LAMBDA e : e.part = "finally")

\* C36: whenever run_once ends, normally or through the failure of a step,
\* the finally-block has invoked stop-container and delete-image of all four
\* variants, each once and in the order of the variants; a failure inside
\* one of them is caught there, so the next cleanup operation is invoked
\* all the same.
C36_CleanupAlwaysComplete ==
    /\ (mpc = "finally" /\ step > Len(CleanupSteps)) \/ mpc \in {"loop", "failed", "done"}
          => \/ runs = <<>>
             \/ /\ Len(CleanupInvoked) = 8
                /\ \A k \in 1..8 :
                      Op(CleanupInvoked[k].op, CleanupInvoked[k].variant) = CleanupSteps[k]
    /\ \A v \in 1..4 :
          /\ CleanupSteps[2 * v - 1] = Op("stop", VariantOrder[v])
          /\ CleanupSteps[2 * v] = Op("delete", VariantOrder[v])
    /\ mpc = "finally"
          => /\ Len(CleanupInvoked) = step - 1
             /\ last_caught <= Len(invoked)

\* run_once ends through the failure of a start_* call, and in its cleanup
\* an operation other than the last failed
C36_Witness ==
    /\ mpc = "failed"
    /\ raised = Name(Op("start", "pg_opt"))
    /\ last_caught > 0
    /\ last_caught < Len(invoked) - 1
    /\ invoked[last_caught].part = "finally"
    /\ invoked[last_caught].op = "delete"
    /\ Len(CleanupInvoked) = 8

\* the operations invoked by the try-block of the running run_once
BodyInvoked == SelectSeq(invoked, LAMBDA e : e.part = "body")

\* position of an operation in a sequence of invocations, 0 when absent
PosOf(seq, o, v) ==
    IF \E k \in 1..Len(seq) : seq[k].op = o /\ seq[k].variant = v
      THEN CHOOSE k \in 1..Len(seq) : seq[k].op = o /\ seq[k].variant = v
      ELSE 0

\* C37: run_once handles the four variants strictly one after another, in
\* the order pg_normal, pg_opt, neo_normal, neo_opt, each as build, start,
\* apply schema, insert, benchmark, stop, delete image: what the try-block
\* has invoked is always a prefix of that sequence, a variant's container is
\* started only after the stop of the variant before it has been invoked,
\* and a variant's benchmark is started only after its insert has been
\* invoked and has returned without an error.
C37_VariantsStrictlyInOrder ==
    /\ Len(BodyInvoked) <= Len(BodySteps)
    /\ \A k \in 1..Len(BodyInvoked) :
          /\ invoked[k].part = "body"
          /\ Op(invoked[k].op, invoked[k].variant) = BodySteps[k]
    /\ \A v \in 1..4 :
          \A k \in 1..7 :
             BodySteps[2 + 7 * (v - 1) + k]
                = Op(<< "build", "start", "schema", "insert", "bench", "stop",
                        "delete" >>[k], VariantOrder[v])
    /\ \A v \in 2..4 :
          PosOf(BodyInvoked, "start", VariantOrder[v]) > 0
             => /\ PosOf(BodyInvoked, "stop", VariantOrder[v - 1]) > 0
                /\ PosOf(BodyInvoked, "stop", VariantOrder[v - 1])
                      < PosOf(BodyInvoked, "start", VariantOrder[v])
    /\ \A v \in 1..4 :
          PosOf(BodyInvoked, "bench", VariantOrder[v]) > 0
             => /\ PosOf(BodyInvoked, "insert", VariantOrder[v])
                      = PosOf(BodyInvoked, "bench", VariantOrder[v]) - 1
                /\ raised # Name(Op("insert", VariantOrder[v]))

\* the last variant's benchmark is running or over, in the second run_once,
\* although the stop of a variant before it had failed
C37_Witness ==
    /\ mpc = "body"
    /\ Len(runs) = 2
    /\ PosOf(BodyInvoked, "bench", "neo_opt") > 0
    /\ last_caught > 0
    /\ invoked[last_caught] = [op |-> "stop", variant |-> "neo_normal", part |-> "body"]

\* the run_once calls of a complete main, in order
ExpectedRuns ==
    [k \in 1..(MAX_ROUNDS * Len(USER_STEPS)) |->
        << ((k - 1) \div Len(USER_STEPS)) + 1,
           USER_STEPS[((k - 1) % Len(USER_STEPS)) + 1] >>]

\* rounds are the outer and user counts the inner loop, and the analysis is
\* started once, after the last run_once has returned
LoopsThenAnalysis ==
    /\ Len(runs) <= Len(ExpectedRuns)
    /\ runs = SubSeq(ExpectedRuns, 1, Len(runs))
    /\ analyses \in {0, 1}
    /\ analyses = 1 => /\ Len(runs) = MAX_ROUNDS * Len(USER_STEPS)
                       /\ mpc \in {"done", "failed"}
                       /\ raised \in {"none", Name(Op("analyse", "none"))}
    /\ mpc = "done" => analyses = 1 /\ raised = "none"

NumStatements == 2

\* for attempt in range(10)
ATTEMPTS == 10

\* time.sleep(3), in milliseconds
RETRY_SLEEP_MS == 3000

InitSchema ==
    /\ db = "neo4j" /\ mode = "normal"
    /\ WARMUP_RUNS = 0 /\ REPETITIONS = 0
    /\ queries = Catalog(1)
    /\ pc = "schema_try"
    /\ Container
    /\ Entry
    /\ MainIdle
    /\ CidIdle
    /\ attempt = 0
    /\ statements \in 0..NumStatements
    /\ ran = <<>>
    /\ applied = 0

\* what applying the schema does not touch
aside == << config, header, pauses, dataset, diskv, samplerv, mainv, cidv, loopv,
            futs, max_workers, exc, poolv, cpu_usec, mem_now, measv, log, hist >>

\* except Exception as e: print(...); time.sleep(3), and the loop moves on
Except ==
    /\ now' = now + RETRY_SLEEP_MS * 1000
    /\ attempt' = attempt + 1
    /\ pc' = "schema_try"
    /\ UNCHANGED failv

\* a statement that fails is passed over and the next one is run
SchemaRunSkipsFailed ==
    /\ pc = "schema_run"
    /\ IF Len(ran) < statements
         THEN \E ok \in BOOLEAN :
                /\ ran' = Append(ran, [stmt |-> Len(ran) + 1, ok |-> ok])
                /\ applied' = IF ok THEN applied + 1 ELSE applied
                /\ UNCHANGED << pc, now, attempt, failv >>
         ELSE /\ pc' = "schema_returned"
              /\ UNCHANGED << ran, applied, now, attempt, failv >>
    /\ UNCHANGED << aside, statements >>

\* head of the loop and start of the try-block: the driver and the session
\* are created, the script is read and split; after the last attempt
\* raise RuntimeError
SchemaTry ==
    /\ pc = "schema_try"
    /\ IF attempt < ATTEMPTS
         THEN \E ok \in BOOLEAN :
                /\ ran' = <<>>
                /\ IF ok THEN /\ pc' = "schema_run"
                              /\ UNCHANGED << now, attempt, failv >>
                         ELSE Except
         ELSE /\ Raise("RuntimeError", "schema")
              /\ UNCHANGED << ran, now, attempt >>
    /\ UNCHANGED << aside, statements, applied >>

\* for stmt in statements: session.run(stmt); then driver.close() and return
SchemaRun ==
    /\ pc = "schema_run"
    /\ IF Len(ran) < statements
         THEN \E ok \in BOOLEAN :
                /\ ran' = Append(ran, [stmt |-> Len(ran) + 1, ok |-> ok])
                /\ IF ok THEN /\ applied' = applied + 1
                              /\ UNCHANGED << pc, now, attempt, failv >>
                         ELSE /\ applied' = applied
                              /\ Except
         ELSE /\ pc' = "schema_returned"
              /\ UNCHANGED << ran, applied, now, attempt, failv >>
    /\ UNCHANGED << aside, statements >>

NextSchema == SchemaTry \/ SchemaRun

SpecSchema == InitSchema /\ [][NextSchema]_vars

\* C39: apply_normal_cypher_structure makes at most 10 attempts, each
\* attempt running the statements of the script again from the first one;
\* it returns in the first attempt in which every statement has succeeded,
\* makes no attempt after that, and raises RuntimeError exactly when all 10
\* attempts have failed.
C39_TenAttemptsFromTheFirstStatement ==
    [][ /\ attempt \in 0..ATTEMPTS /\ attempt' \in 0..ATTEMPTS
        /\ (pc = "schema_try" /\ pc' = "schema_run"
               => attempt < ATTEMPTS /\ ran' = <<>> /\ attempt' = attempt)
        /\ (pc = "schema_run" /\ Len(ran') > Len(ran)
               => /\ ran'[Len(ran')].stmt = Len(ran) + 1
                  /\ \A k \in 1..Len(ran) : ran[k].ok /\ ran[k].stmt = k
                  /\ ran'[Len(ran')].ok = (pc' = "schema_run")
                  /\ ~ran'[Len(ran')].ok
                        => pc' = "schema_try" /\ attempt' = attempt + 1)
        /\ (pc' = "schema_returned"
               => /\ pc = "schema_run"
                  /\ attempt' = attempt /\ attempt < ATTEMPTS
                  /\ Len(ran) = statements
                  /\ \A k \in 1..Len(ran) : ran[k].ok /\ ran[k].stmt = k
                  /\ applied >= statements)
        /\ (pc = "schema_run" /\ Len(ran) = statements
               => pc' = "schema_returned")
        /\ (pc' = "failed"
               => /\ error' = "RuntimeError"
                  /\ attempt = ATTEMPTS /\ pc = "schema_try"
                  /\ now = ATTEMPTS * RETRY_SLEEP_MS * 1000)
        /\ (pc = "schema_try" /\ attempt = ATTEMPTS => pc' = "failed")
        /\ (pc \in {"schema_returned", "failed"} => FALSE) ]_vars

\* the script went through in the last of the ten attempts, each of the
\* attempts before having failed at the last statement
C39_Witness ==
    /\ pc = "schema_returned"
    /\ attempt = ATTEMPTS - 1
    /\ statements = NumStatements
    /\ applied = ATTEMPTS * (statements - 1) + 1

(***************************************************************************)
(* performance_benchmark.py: _cid_of and its cache                         *)
(***************************************************************************)
\* how many _cid_of calls one process makes, and how many different ids the
\* container runtime gives out
MaxLookups == 4
NumIds == 2

\* the container names of run_pg_normal and run_neo_normal
ContainerNames == { "pg_test_normal", "neo5_test_normal" }

InitCid ==
    /\ db \in {"postgres", "neo4j"}
    /\ mode = "normal"
    /\ WARMUP_RUNS = 0 /\ REPETITIONS = 0
    /\ queries = Catalog(1)
    /\ pc = "cid"
    /\ Container
    /\ Entry
    /\ MainIdle
    /\ SchemaIdle
    /\ CidIdle

\* name in _CID_CACHE, and _CID_CACHE[name]; an id is stored by
\* _CID_CACHE[name] = cid
Cached(name) == \E e \in CID_CACHE : e[1] = name
CacheGet(name) == (CHOOSE e \in CID_CACHE : e[1] = name)[2]

\* every call asks the container runtime
CidOfUncached(name) ==
    /\ lookups < MaxLookups
    /\ lookups' = lookups + 1
    /\ \E ok \in BOOLEAN, id \in 1..NumIds :
         /\ inspects' = Append(inspects, [name |-> name, ok |-> ok, lookup |-> lookups + 1])
         /\ IF ok THEN /\ CID_CACHE' = {e \in CID_CACHE : e[1] # name} \cup { << name, id >> }
                       /\ cid' = [ok |-> TRUE, id |-> id]
                  ELSE /\ CID_CACHE' = CID_CACHE
                       /\ cid' = [ok |-> FALSE, id |-> 0]
    /\ UNCHANGED << config, header, pauses, dataset, diskv, samplerv, mainv, schemav,
                    pc, loopv, futs, max_workers, exc, poolv, envv, measv, log,
                    failv, hist >>

\* _cid_of(name): the cached id, else docker inspect --format {{.Id}} name,
\* whose answer is stored; check_output raises when docker fails, and the
\* caller then gets no id
CidOf(name) ==
    /\ lookups < MaxLookups
    /\ lookups' = lookups + 1
    /\ IF Cached(name)
         THEN /\ cid' = [ok |-> TRUE, id |-> CacheGet(name)]
              /\ UNCHANGED << CID_CACHE, inspects >>
         ELSE \E ok \in BOOLEAN, id \in 1..NumIds :
                /\ inspects' = Append(inspects, [name |-> name, ok |-> ok,
                                                 lookup |-> lookups + 1])
                /\ IF ok THEN /\ CID_CACHE' = {e \in CID_CACHE : e[1] # name} \cup { << name, id >> }
                              /\ cid' = [ok |-> TRUE, id |-> id]
                         ELSE /\ CID_CACHE' = CID_CACHE
                              /\ cid' = [ok |-> FALSE, id |-> 0]
    /\ UNCHANGED << config, header, pauses, dataset, diskv, samplerv, mainv, schemav,
                    pc, loopv, futs, max_workers, exc, poolv, envv, measv, log,
                    failv, hist >>

NextCid == \E name \in ContainerNames : CidOf(name)

SpecCid == InitCid /\ [][NextCid]_vars

\* C40: the id of a container name is asked of the container runtime at
\* most once per process after a first success: every later lookup of that
\* name returns the cached id without a docker call, and a lookup that fails
\* stores nothing in the cache.
C40_ResolvedOncePerName ==
    [][ /\ \A i, j \in 1..Len(inspects') :
              i < j /\ inspects'[i].name = inspects'[j].name => ~inspects'[i].ok
        /\ \A name \in ContainerNames :
              Cached(name) /\ (\E e \in CID_CACHE' : e[1] = name)
                 => CacheGet(name) = (CHOOSE e \in CID_CACHE' : e[1] = name)[2]
        /\ (inspects' = inspects /\ lookups' # lookups
               => /\ cid'.ok
                  /\ \E e \in CID_CACHE : cid'.id = e[2]
                  /\ CID_CACHE' = CID_CACHE)
        /\ (inspects' # inspects
               => LET call == inspects'[Len(inspects')] IN
                  /\ inspects' = Append(inspects, call)
                  /\ ~Cached(call.name)
                  /\ cid'.ok = call.ok
                  /\ call.ok => CID_CACHE' = CID_CACHE \cup { << call.name, cid'.id >> }
                  /\ ~call.ok => CID_CACHE' = CID_CACHE)
        /\ \A e, f \in CID_CACHE' : e[1] = f[1] => e = f
        /\ Cardinality(CID_CACHE') =
              Cardinality({k \in 1..Len(inspects') : inspects'[k].ok}) ]_vars

\* a name was looked up four times: the docker call failed, then succeeded,
\* and the two lookups after that were answered from the cache
C40_Witness ==
    /\ lookups = 4
    /\ Len(inspects) = 2
    /\ inspects[1].name = inspects[2].name
    /\ ~inspects[1].ok /\ inspects[2].ok
    /\ inspects[2].lookup = 2
    /\ cid.ok /\ cid.id = CacheGet(inspects[2].name)

====
